---- MODULE Spec2Model ----
(***************************************************************************)
(* Mivna frontend: the retry helper, fetchWithRetry and the error          *)
(* classifier of lib/api.ts, the two AuthProvider implementations          *)
(* (hooks/useAuth.tsx and the withTimeout / refreshProfile variant), the   *)
(* ProtectedRoute guard, the useRateLimit hook, the OrganizationProvider,  *)
(* the TeamSettings page, the generate functions of the Dashboard and the  *)
(* DiagramViewer page.                                                     *)
(***************************************************************************)
EXTENDS Integers, FiniteSets, Sequences, TLC

(***************************************************************************)
(* Bounds of the model.                                                    *)
(***************************************************************************)
\* largest maxRetries a caller passes in the config override
MaxRetriesBound == 3
\* an error message carries at most this many of the markers the code tests
MaxMarkers == 2
\* number of auth-state-change events the backend SDK delivers
MaxEvents == 1
\* Date.now() at page load, in seconds since the epoch
DateNowS == 1000000
\* number of times the clock of useRateLimit is advanced
MaxTicks == 2
\* number of organizations that can exist
MaxOrgs == 5
\* number of calls of one kind that are in flight together
MaxInFlight == 2
\* number of mutations (role change, removal, deletion) the user makes on
\* the team page
MaxMutations == 1
\* the largest attempt number calculateBackoff is applied to
MaxAttempt == 5
\* number of repositories connected on the Dashboard
MaxRepos == 2
\* number of generateDiagram / generateReadme calls made on the Dashboard
MaxRuns == 2
\* number of diagrams a repository has when the DiagramViewer opens
MaxDiagrams == 2
\* number of handleUpdateDiagram calls made on the DiagramViewer
MaxUpdates == 2

(***************************************************************************)
(* lib/api.ts                                                              *)
(***************************************************************************)

\* the substrings that retryOn and ApiError.fromError look for in a message
Substrings ==
    {"fetch", "network", "ECONNREFUSED", "401", "Unauthorized", "403",
     "Forbidden", "429", "rate limit", "500", "502", "503", "504", "400",
     "404", "timeout", "TIMEOUT", "AbortError"}

\* Substrings that the code only ever tests together, in one and the same
\* disjunction of both retryOn and fromError, are one marker, named by the
\* first of them.
Marker(s) ==
    CASE s \in {"fetch", "network"} -> "fetch"
      [] s \in {"429", "rate limit"} -> "429"
      [] s \in {"500", "502", "503", "504"} -> "500"
      [] s \in {"400", "404"} -> "400"
      [] s \in {"timeout", "TIMEOUT"} -> "timeout"
      [] OTHER -> s

Markers == {Marker(s) : s \in Substrings}

\* An error is modelled by its message, and a message by the set of the
\* markers that occur in it.  No substring contains another, so every set of
\* markers is the marker set of some message.
Messages == {m \in SUBSET Markers : Cardinality(m) <= MaxMarkers}

\* message.includes(s)
Includes(message, s) == Marker(s) \in message

\* new Error('Unknown error'): none of the markers occurs in it
UnknownError == {}

DefaultMaxRetries == 3
DefaultBaseDelayMs == 1000
DefaultMaxDelayMs == 10000
DashboardMaxRetries == 2

\* the mutant of DefaultRetryOn: the auth test forgets 403
DefaultRetryOnNo403(error, attempt) ==
    IF Includes(error, "fetch") \/ Includes(error, "network") THEN TRUE
    ELSE IF Includes(error, "401") THEN FALSE
    ELSE IF Includes(error, "400") \/ Includes(error, "404") THEN FALSE
    ELSE IF Includes(error, "500") \/ Includes(error, "502")
            \/ Includes(error, "503") \/ Includes(error, "504") THEN TRUE
    ELSE IF Includes(error, "timeout") \/ Includes(error, "TIMEOUT") THEN TRUE
    ELSE attempt < 2

\* DEFAULT_RETRY_CONFIG.retryOn
DefaultRetryOn(error, attempt) ==
    IF Includes(error, "fetch") \/ Includes(error, "network") THEN TRUE
    ELSE IF Includes(error, "401") \/ Includes(error, "403") THEN FALSE
    ELSE IF Includes(error, "400") \/ Includes(error, "404") THEN FALSE
    ELSE IF Includes(error, "500") \/ Includes(error, "502")
            \/ Includes(error, "503") \/ Includes(error, "504") THEN TRUE
    ELSE IF Includes(error, "timeout") \/ Includes(error, "TIMEOUT") THEN TRUE
    ELSE attempt < 2

\* The retryOn of the final config: the default one, or a caller's override
\* (two representative overrides: retry everything, retry nothing).
RetryOn(policy, error, attempt) ==
    CASE policy = "default" -> DefaultRetryOn(error, attempt)
      [] policy = "always"  -> TRUE
      [] policy = "never"   -> FALSE

Policies == {"default", "always", "never"}

\* finalConfig = { ...DEFAULT_RETRY_CONFIG, ...config }
RetryConfigs ==
    [maxRetries : 0..MaxRetriesBound, retryOn : Policies,
     baseDelayMs : {DefaultBaseDelayMs}, maxDelayMs : {DefaultMaxDelayMs}]

DefaultRetryConfig ==
    [maxRetries |-> DefaultMaxRetries, retryOn |-> "default",
     baseDelayMs |-> DefaultBaseDelayMs, maxDelayMs |-> DefaultMaxDelayMs]

\* the config of Dashboard.fetchGitHubRepos: { maxRetries: 2 }
DashboardRetryConfig ==
    [DefaultRetryConfig EXCEPT !.maxRetries = DashboardMaxRetries]

RECURSIVE Pow2(_)
Pow2(n) == IF n = 0 THEN 1 ELSE 2 * Pow2(n - 1)

Min(a, b) == IF a <= b THEN a ELSE b

\* const exponentialDelay of calculateBackoff
ExponentialDelay(attempt, config) ==
    Min(config.baseDelayMs * Pow2(attempt), config.maxDelayMs)

\* Math.random() in [0, 1), in thousandths
RandomSamples == {0, 500, 999}

\* calculateBackoff, with Math.random() = r / 1000.
\* floor(e + e * 0.25 * (r/1000 - 0.5)) = floor((4000 e + e (r - 500)) / 4000)
calculateBackoff(attempt, config, r) ==
    LET exponentialDelay == ExponentialDelay(attempt, config)
    IN  (4000 * exponentialDelay + exponentialDelay * (r - 500)) \div 4000

\* for (...; attempt <= finalConfig.maxRetries; ...)
LoopCondition(attempt, config) == attempt <= config.maxRetries

\* the mutant of NextAttempt: the loop counter is not advanced
NextAttemptStuck(attempt) == attempt

\* for (...; attempt++)
NextAttempt(attempt) == attempt + 1

\* the mutant of ShouldRetry: the last attempt is not recognised
ShouldRetryNoLast(error, attempt, config) ==
    RetryOn(config.retryOn, error, attempt)

\* isLastAttempt and shouldRetry of withRetry's catch block
ShouldRetry(error, attempt, config) ==
    LET isLastAttempt == attempt = config.maxRetries
    IN  ~isLastAttempt /\ RetryOn(config.retryOn, error, attempt)

ApiErrorTypes ==
    {"NETWORK", "AUTH", "RATE_LIMIT", "SERVER", "CLIENT", "TIMEOUT", "UNKNOWN"}

\* the ApiError constructor (statusCode is not modelled: for SERVER and CLIENT
\* it is the first three-digit run of the message text)
ApiError(message, type) ==
    [message |-> message, type |-> type,
     isRetryable |-> type \in {"NETWORK", "SERVER", "TIMEOUT"}]

\* the mutant of fromError: 400/404 tested before 5xx, as retryOn does
fromErrorClientFirst(message) ==
    IF Includes(message, "fetch") \/ Includes(message, "network")
       \/ Includes(message, "ECONNREFUSED")
    THEN ApiError(message, "NETWORK")
    ELSE IF Includes(message, "401") \/ Includes(message, "Unauthorized")
    THEN ApiError(message, "AUTH")
    ELSE IF Includes(message, "403") \/ Includes(message, "Forbidden")
    THEN ApiError(message, "AUTH")
    ELSE IF Includes(message, "429") \/ Includes(message, "rate limit")
    THEN ApiError(message, "RATE_LIMIT")
    ELSE IF Includes(message, "400") \/ Includes(message, "404")
    THEN ApiError(message, "CLIENT")
    ELSE IF Includes(message, "500") \/ Includes(message, "502")
            \/ Includes(message, "503") \/ Includes(message, "504")
    THEN ApiError(message, "SERVER")
    ELSE IF Includes(message, "timeout") \/ Includes(message, "TIMEOUT")
            \/ Includes(message, "AbortError")
    THEN ApiError(message, "TIMEOUT")
    ELSE ApiError(message, "UNKNOWN")

\* ApiError.fromError, for an error that is not already an ApiError
fromError(message) ==
    IF Includes(message, "fetch") \/ Includes(message, "network")
       \/ Includes(message, "ECONNREFUSED")
    THEN ApiError(message, "NETWORK")
    ELSE IF Includes(message, "401") \/ Includes(message, "Unauthorized")
    THEN ApiError(message, "AUTH")
    ELSE IF Includes(message, "403") \/ Includes(message, "Forbidden")
    THEN ApiError(message, "AUTH")
    ELSE IF Includes(message, "429") \/ Includes(message, "rate limit")
    THEN ApiError(message, "RATE_LIMIT")
    ELSE IF Includes(message, "500") \/ Includes(message, "502")
            \/ Includes(message, "503") \/ Includes(message, "504")
    THEN ApiError(message, "SERVER")
    ELSE IF Includes(message, "400") \/ Includes(message, "404")
    THEN ApiError(message, "CLIENT")
    ELSE IF Includes(message, "timeout") \/ Includes(message, "TIMEOUT")
            \/ Includes(message, "AbortError")
    THEN ApiError(message, "TIMEOUT")
    ELSE ApiError(message, "UNKNOWN")

\* getUserFriendlyErrorMessage
getUserFriendlyErrorMessage(message) ==
    LET apiError == fromError(message)
    IN  CASE apiError.type = "NETWORK" ->
               "Unable to connect. Please check your internet connection and try again."
          [] apiError.type = "AUTH" ->
               "Your session has expired. Please log in again."
          [] apiError.type = "RATE_LIMIT" ->
               "Too many requests. Please wait a moment and try again."
          [] apiError.type = "SERVER" ->
               "Server error. Our team has been notified. Please try again later."
          [] apiError.type = "TIMEOUT" ->
               "Request timed out. Please try again."
          [] apiError.type = "CLIENT" ->
               "Invalid request. Please refresh the page and try again."
          [] OTHER -> "Something went wrong. Please try again."

\* isRetryableError
isRetryableError(message) == fromError(message).isRetryable

VARIABLES
    config,      \* withRetry: finalConfig
    rPc,         \* withRetry: "idle", "awaiting" (await fn()), "sleeping"
                 \*            (await sleep(delay)), "resolved", "rejected"
    attempt,     \* withRetry: the loop counter
    lastError,   \* withRetry: lastError
    delay,       \* withRetry: the delay of the sleep in progress (0 when none)
    thrown,      \* <<e>> once withRetry rejected with error e, <<>> before
    calls,       \* number of invocations of fn so far
    sleeps,      \* number of sleeps started so far
    fnOutcome,   \* how the latest invocation of fn settled: <<>> (none yet),
                 \* <<"ok">>, or <<"error", e>> with the error it threw
    shown,       \* what the caller's catch block displayed: <<>> or
                 \* <<[error |-> ApiError, text |-> user-facing message]>>
    allUnknown   \* history: every invocation of fn so far rejected with an
                 \* error matching none of retryOn's patterns

apiVars ==
    <<config, rPc, attempt, lastError, delay, thrown, calls, sleeps,
      fnOutcome, shown, allUnknown>>

VARIABLES
    impl,            \* which AuthProvider implementation runs
    mountState,      \* "initial", "mounted", "unmounted" (effect cleanup ran)
    user,            \* React state of AuthProvider
    profile,
    session,
    loading,
    localStorage,
    sessionStorage,
    initPc,          \* initSession: "idle", "getSession", "fetchProfile",
                     \*              "done", "failed" (rejected)
    initTimer,       \* the withTimeout timer of initSession's getSession
    usedCache,       \* initSession took the cached-session branch
    bgPc,            \* background getSession of the cached branch: "idle",
                     \* "pending", "timedout", "done"
    bgTimer,         \* its withTimeout timer (part_002)
    bgResp,          \* what the backend answered: "none", "null", "server",
                     \* "throw"
    fp,              \* fp[i].pc: "idle", "select", "getUser", "insert",
                     \* "done"; fp[i].timer: the 3 s timer of the select
    events,          \* auth-state-change events delivered so far
    soPc,            \* signOut: "idle", "awaiting", "done"
    soTimer,         \* the withTimeout timer of signOut (part_002)
    location,        \* "/login" or "/dashboard" (a ProtectedRoute)
    timedOut,        \* ProtectedRoute state
    routeTimer       \* ProtectedRoute's MAX_LOADING_TIME_MS timer

reactVars == <<user, profile, session, loading>>
storeVars == <<localStorage, sessionStorage>>
routeVars == <<location, timedOut, routeTimer>>
initVars == <<initPc, initTimer, usedCache>>
bgVars == <<bgPc, bgTimer, bgResp>>
soVars == <<soPc, soTimer>>

authVars ==
    <<impl, mountState, user, profile, session, loading, localStorage,
      sessionStorage, initPc, initTimer, usedCache, bgPc, bgTimer, bgResp,
      fp, events, soPc, soTimer, location, timedOut, routeTimer>>

VARIABLES
    rlUserId,        \* useRateLimit(userId): <<>> (undefined) or <<id>>
    rlRow,           \* the user's row of the profiles table
    rlPc,            \* fetchRateLimits: "idle", "fetching", "done"
    rlState,         \* useRateLimit: the RateLimitState
    rlProfile,       \* the profile of the latest completed computation:
                     \* <<>> or <<row>>
    rlFetchNow,      \* `now` of the latest completed computation
    rlNow,           \* Date.now(), in ms from the page load
    rlTicks          \* how often the clock has been advanced

rlVars ==
    <<rlUserId, rlRow, rlPc, rlState, rlProfile, rlFetchNow, rlNow, rlTicks>>

VARIABLES
    dbOrgs,          \* backend: the rows of the organizations table
    dbMembers,       \* backend: the rows of the org_members table
    orgUser,         \* OrganizationProvider: user of useAuth(), <<>> or <<id>>
    tier,            \* profile?.subscription_tier of useAuth(): <<>> or <<t>>
    currentOrg,      \* OrganizationProvider state: <<>> (null) or <<org>>
    userOrgs,
    memberships,
    orgLoading,
    savedOrgId,      \* localStorage 'mivna_current_org': <<>> or <<id>>
    orgFetches,      \* fetchUserOrgs calls in flight, by the caller that
                     \* awaits them
    orgInserts,      \* createOrg calls awaiting their insert
    orgDeletes,      \* deleteOrg calls awaiting their delete
    createResult,    \* how the latest createOrg call ended so far
    tsPage,          \* "none", or "team" while TeamSettings is mounted
    tsOrgId,         \* useParams().orgId: <<>> or <<id>>
    members,         \* TeamSettings state
    tsLoading,
    showDeleteConfirm,
    tsLoads,         \* loadMembers calls awaiting getMembers, by org id
    tsPending,       \* updateMemberRole / removeMember calls in flight
    tsMutations,     \* mutations made on the team page so far
    loadedOrgId      \* localStorage 'mivna_current_org' as the page load
                     \* found it: <<>> or <<id>>

VARIABLES
    fwTimers,        \* fetchWithRetry: the 30 s timer of the k-th invocation
                     \* of fn: "unset", "armed", "cleared" or "fired"
    fwSettled,       \* how the latest fetch settled: <<>> (none yet),
                     \* <<"response", r>>, <<"TypeError">>, <<"AbortError">>
    fwThrown         \* the message of the error fn threw last: <<>>, <<text>>

fetchVars == <<fwTimers, fwSettled, fwThrown>>

VARIABLES
    backoff          \* a call of calculateBackoff on its own: <<>>, or
                     \* <<[attempt, config, random, delay]>> with delay <<>>
                     \* until the call returned, <<d>> after

VARIABLES
    dbReadmes,       \* backend: profiles.readmes_generated of the user
    dbRepoStatus,    \* backend: repositories.status, by repository id
    dbReadme,        \* backend: whether readme_content is stored, by id
    profileReadmes,  \* profile.readmes_generated of the AuthProvider state
    shownStatus,     \* Dashboard connectedRepos: the status of each repo
    shownReadme,     \* Dashboard connectedRepos: repo.readme_content set
    processingRepos, \* Dashboard state
    diagramModal,    \* Dashboard state: <<>> (closed) or <<repo id>>
    runs,            \* the generateDiagram / generateReadme calls, by the
                     \* order they were made: kind, repo, the await they
                     \* are at, and profile.readmes_generated of the render
                     \* whose closure made the call
    started,         \* number of generate calls made so far
    repoFetches,     \* fetchConnectedRepos calls nobody awaits, in flight
    readmeDone,      \* history: generateReadme runs that succeeded
    lastDiagram      \* history: how the latest completed generateDiagram
                     \* run of each repository ended: "none", "ok", "failed"

dashVars ==
    <<dbReadmes, dbRepoStatus, dbReadme, profileReadmes, shownStatus,
      shownReadme, processingRepos, diagramModal, runs, started,
      repoFetches, readmeDone, lastDiagram>>

VARIABLES
    dbDiagrams,        \* backend: the repository_diagrams rows of the
                       \* repository (a set: the table has no order)
    viewerRepo,        \* DiagramViewer state repo: <<>> (null) or
                       \* <<repository_diagrams of the fetched row>>
    viewerLoading,     \* DiagramViewer state loading
    activeDiagramType, \* DiagramViewer state
    currentDiagramCode,\* DiagramViewer state: <<>> (null) or <<code>>
    updating,          \* DiagramViewer state
    viewerUpdate,      \* the handleUpdateDiagram call in flight: <<>>, or
                       \* <<[type, pc]>> with the activeDiagramType of its
                       \* closure and the await it is at
    viewerUpdates,     \* number of handleUpdateDiagram calls made so far
    updatedType        \* history: <<T>> when the last step was the return
                       \* of a successful update of type T, re-fetched,
                       \* with the tab T selected until then; else <<>>

viewerVars ==
    <<dbDiagrams, viewerRepo, viewerLoading, activeDiagramType,
      currentDiagramCode, updating, viewerUpdate, viewerUpdates, updatedType>>

\* the pages below the providers
pageVars == <<dashVars, viewerVars>>

dbVars == <<dbOrgs, dbMembers>>

orgVars ==
    <<orgUser, tier, currentOrg, userOrgs, memberships, orgLoading,
      savedOrgId, orgFetches, orgInserts, orgDeletes, createResult>>

teamVars ==
    <<tsPage, tsOrgId, members, tsLoading, showDeleteConfirm, tsLoads,
      tsPending, tsMutations>>

orgTeamVars == <<dbVars, orgVars, teamVars, loadedOrgId>>

\* everything but the variables of withRetry
nonApiVars ==
    <<authVars, rlVars, orgTeamVars, backoff, fetchVars, pageVars>>

\* everything but the variables of the AuthProvider and the ProtectedRoute
nonAuthVars ==
    <<apiVars, rlVars, orgTeamVars, backoff, fetchVars, pageVars>>

\* everything but the variables of useRateLimit
nonRlVars ==
    <<apiVars, authVars, orgTeamVars, backoff, fetchVars, pageVars>>

\* everything but the backend tables, the OrganizationProvider and
\* TeamSettings
nonOrgVars ==
    <<apiVars, authVars, rlVars, backoff, fetchVars, loadedOrgId, pageVars>>

\* everything but the variables of the pages
nonPageVars ==
    <<apiVars, authVars, rlVars, orgTeamVars, backoff, fetchVars>>

\* everything but the variables of the Dashboard
nonDashVars == <<nonPageVars, viewerVars>>

\* no invocation beyond this count is explored (the retry loop of the code
\* never comes near it; a loop that fails to stop does)
CallCap == MaxRetriesBound + 3

ApiInit ==
    /\ config \in RetryConfigs
    /\ rPc = "idle"
    /\ attempt = 0
    /\ lastError = UnknownError
    /\ delay = 0
    /\ thrown = <<>>
    /\ calls = 0
    /\ sleeps = 0
    /\ fnOutcome = <<>>
    /\ shown = <<>>
    /\ allUnknown = TRUE

\* The head of the for loop: test the condition, then either call fn or fall
\* out of the loop to `throw lastError`.
LoopHead(a) ==
    IF LoopCondition(a, config)
    THEN /\ calls < CallCap
         /\ rPc' = "awaiting"
         /\ calls' = calls + 1
         /\ thrown' = thrown
    ELSE /\ rPc' = "rejected"
         /\ calls' = calls
         /\ thrown' = <<lastError>>

\* withRetry(fn, config) is called: attempt = 0, enter the loop
WithRetryStart ==
    /\ rPc = "idle"
    /\ LoopHead(0)
    /\ attempt' = 0
    /\ UNCHANGED <<nonApiVars, config, lastError, delay, sleeps, fnOutcome,
                   shown, allUnknown>>

\* fn() resolves: return await fn()
FnResolves ==
    /\ rPc = "awaiting"
    /\ rPc' = "resolved"
    /\ fnOutcome' = <<"ok">>
    /\ allUnknown' = FALSE
    /\ UNCHANGED <<nonApiVars, config, attempt, lastError, delay, thrown, calls, sleeps,
                   shown>>

\* the catch block of withRetry, entered with an error carrying message m
Catch(m) ==
    /\ fnOutcome' = <<"error", m>>
    /\ lastError' = m
    /\ allUnknown' = (allUnknown /\ m = UnknownError)
    /\ IF ShouldRetry(m, attempt, config)
       THEN /\ \E r \in RandomSamples :
                  delay' = calculateBackoff(attempt, config, r)
            /\ sleeps' = sleeps + 1
            /\ rPc' = "sleeping"
            /\ thrown' = thrown
       ELSE /\ rPc' = "rejected"        \* break; throw lastError
            /\ thrown' = <<m>>
            /\ UNCHANGED <<delay, sleeps>>

\* fn() rejects with an error carrying message m: the catch block
FnRejects ==
    /\ rPc = "awaiting"
    /\ \E m \in Messages : Catch(m)
    /\ UNCHANGED <<nonApiVars, config, attempt, calls, shown>>

\* the sleep ends: attempt++ and the loop head again
SleepDone ==
    /\ rPc = "sleeping"
    /\ delay' = 0
    /\ attempt' = NextAttempt(attempt)
    /\ LoopHead(NextAttempt(attempt))
    /\ UNCHANGED <<nonApiVars, config, lastError, sleeps, fnOutcome, shown,
                   allUnknown>>

\* the caller's catch block (Dashboard.fetchGitHubRepos): classify the error
\* and show its user-facing message
ShowError ==
    /\ rPc = "rejected"
    /\ shown = <<>>
    /\ shown' = <<[error |-> fromError(thrown[1]),
                   text |-> getUserFriendlyErrorMessage(thrown[1])]>>
    /\ UNCHANGED <<nonApiVars, config, rPc, attempt, lastError, delay, thrown,
                   calls, sleeps, fnOutcome, allUnknown>>

ApiNext == WithRetryStart \/ FnResolves \/ FnRejects \/ SleepDone \/ ShowError

\* the configurations calculateBackoff is applied to: the default one and
\* callers' overrides of baseDelayMs and maxDelayMs
BackoffConfigs ==
    [maxRetries : {DefaultMaxRetries}, retryOn : {"default"},
     baseDelayMs : {DefaultBaseDelayMs \div 2, DefaultBaseDelayMs,
                    2 * DefaultBaseDelayMs},
     maxDelayMs : {DefaultMaxDelayMs \div 2, DefaultMaxDelayMs}]

BackoffCalls ==
    [attempt : 0..MaxAttempt, config : BackoffConfigs,
     random : RandomSamples, delay : {<<>>}]

BackoffInit == backoff \in {<<>>} \cup {<<c>> : c \in BackoffCalls}

\* calculateBackoff(attempt, config) returns
CalculateBackoff ==
    /\ backoff # <<>>
    /\ backoff[1].delay = <<>>
    /\ backoff' =
          <<[backoff[1] EXCEPT
               !.delay = <<calculateBackoff(backoff[1].attempt,
                                            backoff[1].config,
                                            backoff[1].random)>>]>>
    /\ UNCHANGED <<apiVars, authVars, rlVars, orgTeamVars, fetchVars, pageVars>>

BackoffNext == CalculateBackoff

(***************************************************************************)
(* fetchWithRetry: withRetry around fetch with a 30 s abort timer          *)
(***************************************************************************)

\* the responses fetch resolves with: <<status, statusText>>
Responses ==
    {<<200, "OK">>, <<204, "No Content">>, <<401, "Unauthorized">>,
     <<403, "Forbidden">>, <<404, "Not Found">>, <<418, "I'm a teapot">>,
     <<500, "Internal Server Error">>, <<504, "Gateway Timeout">>}

\* response.ok
Ok(response) == response[1] >= 200 /\ response[1] <= 299

\* `HTTP ${response.status}: ${response.statusText}`
HttpError(response) == <<"HTTP ", response[1], ": ", response[2]>>

\* new Error('Request timeout')
RequestTimeout == <<"Request timeout">>

\* the TypeError fetch rejects with when the request cannot be made
FailedToFetch == <<"Failed to fetch">>

\* the message of an error fn throws, as the set of markers occurring in it
\* (String.includes is case sensitive: "Gateway Timeout" has no "timeout")
MessageOf(text) ==
    CASE text = RequestTimeout -> {Marker("timeout")}
      [] text = FailedToFetch -> {Marker("fetch")}
      [] OTHER ->
           {Marker(x) : x \in {y \in Substrings :
                                 y = ToString(text[2]) \/ y = text[4]}}

\* the mutant of clearTimeoutInCatch: the catch block leaves the timer alone
KeepTimerInCatch(t) == t

\* clearTimeout(timeoutId) after the response arrived
clearTimeout(t) == IF t = "armed" THEN "cleared" ELSE t

\* clearTimeout(timeoutId) of the catch block
clearTimeoutInCatch(t) == IF t = "armed" THEN "cleared" ELSE t

FetchInit ==
    /\ fwTimers = [k \in 1..CallCap |-> "unset"]
    /\ fwSettled = <<>>
    /\ fwThrown = <<>>

\* withRetry calls fn when the loop condition holds at attempt a: a new
\* AbortController and setTimeout(() => controller.abort(), 30000)
FnInvoked(a) ==
    fwTimers' = IF LoopCondition(a, config)
                THEN [fwTimers EXCEPT ![calls + 1] = "armed"]
                ELSE fwTimers

\* the fetch of the invocation in flight has not settled
FetchPending == rPc = "awaiting" /\ fwTimers[calls] = "armed"

\* fetchWithRetry(url, options, retryConfig) is called
FetchWithRetryStart ==
    /\ rPc = "idle"
    /\ LoopHead(0)
    /\ attempt' = 0
    /\ FnInvoked(0)
    /\ UNCHANGED <<authVars, rlVars, orgTeamVars, backoff, pageVars, config,
                   lastError, delay, sleeps, fnOutcome, shown, allUnknown,
                   fwSettled, fwThrown>>

\* fetch resolves with a response: the timer is cleared; an OK response is
\* returned, any other becomes an error that passes through the catch block
\* of fn into the one of withRetry
FetchResponds ==
    /\ FetchPending
    /\ \E response \in Responses :
         /\ fwSettled' = <<"response", response>>
         /\ IF Ok(response)
            THEN /\ fwTimers' =
                       [fwTimers EXCEPT ![calls] = clearTimeout(@)]
                 /\ rPc' = "resolved"
                 /\ fnOutcome' = <<"ok">>
                 /\ allUnknown' = FALSE
                 /\ UNCHANGED <<lastError, delay, thrown, sleeps, fwThrown>>
            ELSE /\ fwTimers' =
                       [fwTimers EXCEPT
                          ![calls] = clearTimeoutInCatch(clearTimeout(@))]
                 /\ fwThrown' = <<HttpError(response)>>
                 /\ Catch(MessageOf(HttpError(response)))
    /\ UNCHANGED <<authVars, rlVars, orgTeamVars, backoff, pageVars, config, attempt,
                   calls, shown>>

\* fetch rejects (no connection): the catch block of fn clears the timer and
\* rethrows
FetchFails ==
    /\ FetchPending
    /\ fwSettled' = <<"TypeError">>
    /\ fwTimers' = [fwTimers EXCEPT ![calls] = clearTimeoutInCatch(@)]
    /\ fwThrown' = <<FailedToFetch>>
    /\ Catch(MessageOf(FailedToFetch))
    /\ UNCHANGED <<authVars, rlVars, orgTeamVars, backoff, pageVars, config, attempt,
                   calls, shown>>

\* 30 s after invocation k the timer fires: controller.abort().  The fetch
\* of that invocation, if still pending, rejects with an AbortError, which
\* the catch block of fn turns into 'Request timeout'; the controller of a
\* finished invocation has nothing left to abort.
FetchTimerFires ==
    \E k \in 1..CallCap :
      /\ fwTimers[k] = "armed"
      /\ IF k = calls /\ rPc = "awaiting"
         THEN /\ fwTimers' =
                    [fwTimers EXCEPT ![k] = clearTimeoutInCatch("fired")]
              /\ fwSettled' = <<"AbortError">>
              /\ fwThrown' = <<RequestTimeout>>
              /\ Catch(MessageOf(RequestTimeout))
         ELSE /\ fwTimers' = [fwTimers EXCEPT ![k] = "fired"]
              /\ UNCHANGED <<rPc, lastError, delay, thrown, sleeps,
                             fnOutcome, allUnknown, fwSettled, fwThrown>>
      /\ UNCHANGED <<authVars, rlVars, orgTeamVars, backoff, pageVars, config,
                     attempt, calls, shown>>

\* the sleep ends: attempt++, the loop head, and fn again
FetchSleepDone ==
    /\ rPc = "sleeping"
    /\ delay' = 0
    /\ attempt' = NextAttempt(attempt)
    /\ LoopHead(NextAttempt(attempt))
    /\ FnInvoked(NextAttempt(attempt))
    /\ UNCHANGED <<authVars, rlVars, orgTeamVars, backoff, pageVars, config,
                   lastError, sleeps, fnOutcome, shown, allUnknown,
                   fwSettled, fwThrown>>

FetchNext ==
    \/ FetchWithRetryStart
    \/ FetchResponds
    \/ FetchFails
    \/ FetchTimerFires
    \/ FetchSleepDone

(***************************************************************************)
(* The AuthProvider (two implementations) and the ProtectedRoute           *)
(***************************************************************************)

\* the two AuthProvider implementations of the repository:
\* "useAuth"  - hooks/useAuth.tsx
\* "part_002" - the variant with withTimeout and refreshProfile
Impls == {"useAuth", "part_002"}

\* timers, in milliseconds
SessionCheckTimeoutMs == 3000
ProfileFetchTimeoutMs == 3000
SignOutTimeoutMs == 3000
MAX_LOADING_TIME_MS == 5000
\* bufferMs of getCachedSession (part_002)
ExpiryBufferMs == 5 * 60 * 1000

\* a timer that is not armed
Off == -1

\* Date.now() during the page load
DateNowMs == DateNowS * 1000

\* The value stored under the auth-token key of localStorage: <<>> when the
\* key is absent, else <<e>>; e.parses is whether JSON.parse(stored) succeeds,
\* access_token and user whether the parsed object has these (truthy) fields,
\* expires_at its expires_at in seconds (0: absent or falsy).
ExpiryValues == {0, DateNowS - 1, DateNowS + 60, DateNowS + 3600}

StoredTokens ==
    {<<>>}
    \cup {<<[parses |-> FALSE, access_token |-> FALSE, user |-> FALSE,
             expires_at |-> 0]>>}
    \cup {<<[parses |-> TRUE, access_token |-> t, user |-> u,
             expires_at |-> x]>> :
            t \in BOOLEAN, u \in BOOLEAN, x \in ExpiryValues}

\* localStorage.clear() / sessionStorage.clear()
EmptyLocalStorage == [authToken |-> <<>>]
EmptySessionStorage == {}

\* the mutant of getCachedSessionUseAuth: expires_at is never looked at
getCachedSessionNoExpiry(storage) ==
    LET stored == storage.authToken
    IN  IF stored = <<>> THEN [session |-> "null", needsRefresh |-> FALSE]
        ELSE IF ~stored[1].parses
        THEN [session |-> "null", needsRefresh |-> FALSE]
        ELSE IF stored[1].access_token /\ stored[1].user
        THEN [session |-> "cached", needsRefresh |-> FALSE]
        ELSE [session |-> "null", needsRefresh |-> FALSE]

\* getCachedSession of hooks/useAuth.tsx: [session, needsRefresh]
getCachedSessionUseAuth(storage) ==
    LET stored == storage.authToken
    IN  IF stored = <<>> THEN [session |-> "null", needsRefresh |-> FALSE]
        ELSE IF ~stored[1].parses
        THEN [session |-> "null", needsRefresh |-> FALSE]
        ELSE IF stored[1].access_token /\ stored[1].user
        THEN [session |-> "cached",
              needsRefresh |->
                  IF stored[1].expires_at # 0
                  THEN stored[1].expires_at * 1000 < DateNowMs
                  ELSE FALSE]
        ELSE [session |-> "null", needsRefresh |-> FALSE]

\* the mutant of getCachedSessionTimeout: the expiry test is inverted
getCachedSessionInverted(storage) ==
    LET stored == storage.authToken
    IN  IF stored = <<>> THEN "null"
        ELSE IF ~stored[1].parses THEN "null"
        ELSE IF ~stored[1].access_token \/ ~stored[1].user THEN "null"
        ELSE IF stored[1].expires_at # 0
                /\ stored[1].expires_at * 1000 - ExpiryBufferMs >= DateNowMs
        THEN "null"
        ELSE "cached"

\* getCachedSession of part_002: the session or null
getCachedSessionTimeout(storage) ==
    LET stored == storage.authToken
    IN  IF stored = <<>> THEN "null"
        ELSE IF ~stored[1].parses THEN "null"
        ELSE IF ~stored[1].access_token \/ ~stored[1].user THEN "null"
        ELSE IF stored[1].expires_at # 0
                /\ stored[1].expires_at * 1000 - ExpiryBufferMs < DateNowMs
        THEN "null"
        ELSE "cached"

\* the session initSession uses optimistically ("null": none)
CachedSessionToUse(i, storage) ==
    IF i = "useAuth"
    THEN LET c == getCachedSessionUseAuth(storage)
         IN  IF c.session # "null" /\ ~c.needsRefresh THEN c.session
             ELSE "null"
    ELSE getCachedSessionTimeout(storage)

\* session.user
UserOf(s) ==
    CASE s = "null" -> "null"
      [] s = "cached" -> "cachedUser"
      [] s = "server" -> "serverUser"

\* the fetchProfile calls in flight: 0 is the one of initSession, i >= 1 the
\* one of the i-th auth-state-change callback
FpIds == 0..MaxEvents

isMounted == mountState = "mounted"

\* a ProtectedRoute is mounted
RouteMounted == isMounted /\ location = "/dashboard"

\* the mutant of Render: the loading test is dropped
RenderNoSpinner(t, l, u) ==
    IF t THEN "redirect"
    ELSE IF u = "null" THEN "redirect"
    ELSE "children"

\* what ProtectedRoute returns for timedOut t, loading l, user u
Render(t, l, u) ==
    IF t THEN "redirect"
    ELSE IF l THEN "spinner"
    ELSE IF u = "null" THEN "redirect"
    ELSE "children"

\* what is on screen at the protected route
View == IF RouteMounted THEN Render(timedOut, loading, user) ELSE "none"

AuthInit ==
    /\ impl \in Impls
    /\ mountState = "initial"
    /\ user = "null"
    /\ profile = "null"
    /\ session = "null"
    /\ loading = TRUE
    /\ localStorage \in [authToken : StoredTokens]
    /\ sessionStorage \in {{}, {"other"}}
    /\ initPc = "idle"
    /\ initTimer = Off
    /\ usedCache = FALSE
    /\ bgPc = "idle"
    /\ bgTimer = Off
    /\ bgResp = "none"
    /\ fp = [i \in FpIds |-> [pc |-> "idle", timer |-> Off]]
    /\ events = 0
    /\ soPc = "idle"
    /\ soTimer = Off
    /\ location = "/login"
    /\ timedOut = FALSE
    /\ routeTimer = Off

\* the timer withTimeout / Promise.race arms in part_002 (none in useAuth)
TimerOf(ms) == IF impl = "part_002" THEN ms ELSE Off

\* fetchProfile(userId) is called for slot i
StartFetch(i) ==
    fp' = [fp EXCEPT ![i] = [pc |-> "select",
                             timer |-> TimerOf(ProfileFetchTimeoutMs)]]

\* setLoading(false).  When loading changes, ProtectedRoute's effect on
\* [loading] runs again: its cleanup clears the timer, its body calls
\* setTimedOut(false).
LoadingOff ==
    /\ loading' = FALSE
    /\ IF loading /\ RouteMounted
       THEN routeTimer' = Off /\ timedOut' = FALSE /\ UNCHANGED location
       ELSE UNCHANGED routeVars

LoadingSame == UNCHANGED <<loading, location, timedOut, routeTimer>>

\* the effect of AuthProvider runs: isMounted = true, initSession() up to its
\* first await, and the subscription to auth-state changes
Mount ==
    /\ mountState = "initial"
    /\ mountState' = "mounted"
    /\ LET cachedSession == CachedSessionToUse(impl, localStorage)
       IN  IF cachedSession # "null"
           THEN /\ session' = cachedSession
                /\ user' = UserOf(cachedSession)
                /\ LoadingOff
                /\ StartFetch(0)
                /\ bgPc' = "pending"
                /\ bgTimer' = TimerOf(SessionCheckTimeoutMs)
                /\ initPc' = "done"
                /\ usedCache' = TRUE
                /\ UNCHANGED <<initTimer, profile, bgResp>>
           ELSE /\ initPc' = "getSession"
                /\ initTimer' = TimerOf(SessionCheckTimeoutMs)
                /\ LoadingSame
                /\ UNCHANGED <<user, profile, session, usedCache, bgVars, fp>>
    /\ UNCHANGED <<nonAuthVars, impl, storeVars, events, soVars>>

\* the effect cleanup: isMounted = false, unsubscribe; the routes below the
\* provider unmount with it (their cleanup clears the timer)
Unmount ==
    /\ mountState = "mounted"
    /\ mountState' = "unmounted"
    /\ routeTimer' = Off
    /\ UNCHANGED <<nonAuthVars, impl, reactVars, storeVars, initVars, bgVars, fp, events,
                   soVars, location, timedOut>>

\* initSession, no cached session: supabase.auth.getSession() answers with s
InitSessionResponds ==
    /\ initPc = "getSession"
    /\ \E s \in {"null", "server"} :
         IF ~isMounted
         THEN /\ initPc' = "done"
              /\ LoadingSame
              /\ UNCHANGED <<user, profile, session, fp>>
         ELSE IF s # "null"
         THEN /\ session' = s
              /\ user' = UserOf(s)
              /\ StartFetch(0)
              /\ initPc' = "fetchProfile"
              /\ LoadingSame
              /\ UNCHANGED profile
         ELSE /\ session' = "null"
              /\ user' = "null"
              /\ profile' = IF impl = "part_002" THEN "null" ELSE profile
              /\ LoadingOff
              /\ initPc' = "done"
              /\ UNCHANGED fp
    /\ initTimer' = Off
    /\ UNCHANGED <<nonAuthVars, impl, mountState, storeVars, usedCache, bgVars, events,
                   soVars>>

\* part_002: the 3 s timer of withTimeout wins: the fallback { session: null }
InitSessionTimeout ==
    /\ initPc = "getSession"
    /\ initTimer = 0
    /\ initTimer' = Off
    /\ initPc' = "done"
    /\ IF isMounted
       THEN /\ session' = "null"
            /\ user' = "null"
            /\ profile' = "null"
            /\ LoadingOff
       ELSE /\ LoadingSame
            /\ UNCHANGED <<user, profile, session>>
    /\ UNCHANGED <<nonAuthVars, impl, mountState, storeVars, usedCache, bgVars, fp, events,
                   soVars>>

\* supabase.auth.getSession() rejects.  useAuth: the catch block clears the
\* state and finally sets loading to false.  part_002: withTimeout rejects
\* and nothing catches it: initSession ends there.
InitSessionRejects ==
    /\ initPc = "getSession"
    /\ initTimer' = Off
    /\ IF impl = "useAuth"
       THEN /\ initPc' = "done"
            /\ IF isMounted
               THEN /\ session' = "null"
                    /\ user' = "null"
                    /\ profile' = "null"
                    /\ LoadingOff
               ELSE /\ LoadingSame
                    /\ UNCHANGED <<user, profile, session>>
       ELSE /\ initPc' = "failed"
            /\ LoadingSame
            /\ UNCHANGED <<user, profile, session>>
    /\ UNCHANGED <<nonAuthVars, impl, mountState, storeVars, usedCache, bgVars, fp, events,
                   soVars>>

\* The end of fetchProfile for slot i together with what its caller does
\* next.  p is the profile obtained: "fetched", "created", "null" (no data),
\* or "skip" (useAuth: fetchProfile ended without calling setProfile).
\* useAuth: fetchProfile itself calls setProfile; its isMounted parameter is
\* the value passed at the call, which is true at every call site.
\* part_002: the caller calls setProfile(p) if (isMounted && p).
FinishFetch(i, p) ==
    /\ fp' = [fp EXCEPT ![i] = [pc |-> "done", timer |-> Off]]
    /\ profile' =
         IF impl = "useAuth"
         THEN (IF p = "skip" THEN profile ELSE p)
         ELSE (IF isMounted /\ p \notin {"null", "skip"} THEN p ELSE profile)
    /\ IF i = 0
       THEN IF usedCache
            THEN LoadingSame /\ UNCHANGED initPc
            ELSE /\ initPc' = "done"
                 /\ IF isMounted THEN LoadingOff ELSE LoadingSame
       ELSE LoadingOff /\ UNCHANGED initPc
    /\ UNCHANGED <<nonAuthVars, impl, mountState, user, session, storeVars, initTimer,
                   usedCache, bgVars, events, soVars>>

\* profiles.select().single() answers: a row, PGRST116 (no row), or another
\* error / a rejection
FetchSelectResponds ==
    \E i \in FpIds :
      /\ fp[i].pc = "select"
      /\ \E r \in {"data", "notfound", "error"} :
           CASE r = "data" -> FinishFetch(i, "fetched")
             [] r = "notfound" ->
                  /\ fp' = [fp EXCEPT ![i] = [pc |-> "getUser", timer |-> Off]]
                  /\ UNCHANGED <<nonAuthVars, impl, mountState, reactVars, storeVars,
                                 initVars, bgVars, events, soVars, routeVars>>
             [] r = "error" ->
                  FinishFetch(i, IF impl = "useAuth" THEN "skip" ELSE "null")

\* part_002: the 3 s timer of fetchProfile's Promise.race wins
FetchSelectTimeout ==
    \E i \in FpIds :
      /\ fp[i].pc = "select"
      /\ fp[i].timer = 0
      /\ FinishFetch(i, "null")

\* supabase.auth.getUser() answers (ok), or rejects (the catch block)
FetchGetUserResponds ==
    \E i \in FpIds :
      /\ fp[i].pc = "getUser"
      /\ \E ok \in BOOLEAN :
           IF ok
           THEN /\ fp' = [fp EXCEPT ![i].pc = "insert"]
                /\ UNCHANGED <<nonAuthVars, impl, mountState, reactVars, storeVars,
                               initVars, bgVars, events, soVars, routeVars>>
           ELSE FinishFetch(i, IF impl = "useAuth" THEN "skip" ELSE "null")

\* profiles.insert().select().single() answers: the created row, no data
\* (an error result), or a rejection
FetchInsertResponds ==
    \E i \in FpIds :
      /\ fp[i].pc = "insert"
      /\ \E r \in {"created", "null", "throw"} :
           FinishFetch(i, IF r = "throw"
                          THEN (IF impl = "useAuth" THEN "skip" ELSE "null")
                          ELSE r)

\* cached branch: the background supabase.auth.getSession() answers with s
\* before any timer of withTimeout has fired
BackgroundSessionResponds ==
    /\ bgPc = "pending"
    /\ \E s \in {"null", "server"} :
         /\ bgResp' = s
         /\ IF ~isMounted
            THEN UNCHANGED <<user, profile, session>>
            ELSE IF s # "null"
            THEN /\ session' = s
                 /\ user' = UserOf(s)
                 /\ UNCHANGED profile
            ELSE IF impl = "useAuth"
            THEN /\ session' = "null"
                 /\ user' = "null"
                 /\ profile' = "null"
            ELSE UNCHANGED <<user, profile, session>>
    /\ bgPc' = "done"
    /\ bgTimer' = Off
    /\ UNCHANGED <<nonAuthVars, impl, mountState, loading, storeVars, initVars, fp, events,
                   soVars, routeVars>>

\* the background getSession() rejects: both implementations keep the cached
\* session
BackgroundSessionRejects ==
    /\ bgPc = "pending"
    /\ bgPc' = "done"
    /\ bgResp' = "throw"
    /\ bgTimer' = Off
    /\ UNCHANGED <<nonAuthVars, impl, mountState, reactVars, storeVars, initVars, fp,
                   events, soVars, routeVars>>

\* part_002: the 3 s timer wins the race: fallback session null, the cached
\* session is kept
BackgroundSessionTimeout ==
    /\ bgPc = "pending"
    /\ bgTimer = 0
    /\ bgPc' = "timedout"
    /\ bgTimer' = Off
    /\ UNCHANGED <<nonAuthVars, impl, mountState, reactVars, storeVars, initVars, bgResp,
                   fp, events, soVars, routeVars>>

\* part_002: getSession() answers after the race was decided: nobody listens
BackgroundSessionLate ==
    /\ bgPc = "timedout"
    /\ \E s \in {"null", "server"} : bgResp' = s
    /\ bgPc' = "done"
    /\ UNCHANGED <<nonAuthVars, impl, mountState, reactVars, storeVars, initVars, bgTimer,
                   fp, events, soVars, routeVars>>

\* the onAuthStateChange callback runs with newSession s, up to its await
AuthStateChange ==
    /\ isMounted
    /\ events < MaxEvents
    /\ events' = events + 1
    /\ \E s \in {"null", "server"} :
         /\ session' = s
         /\ user' = UserOf(s)
         /\ IF s # "null"
            THEN /\ StartFetch(events + 1)
                 /\ LoadingSame
                 /\ UNCHANGED profile
            ELSE /\ profile' = "null"
                 /\ LoadingOff
                 /\ UNCHANGED fp
    /\ UNCHANGED <<nonAuthVars, impl, mountState, storeVars, initVars, bgVars, soVars>>

\* the user opens a protected route (or Login navigates to /dashboard):
\* ProtectedRoute mounts with timedOut = false and its effect runs
NavigateProtected ==
    /\ isMounted
    /\ location = "/login"
    /\ location' = "/dashboard"
    /\ timedOut' = FALSE
    /\ routeTimer' = IF loading THEN MAX_LOADING_TIME_MS ELSE Off
    /\ UNCHANGED <<nonAuthVars, impl, mountState, reactVars, storeVars, initVars, bgVars,
                   fp, events, soVars>>

\* the mutant of RouteTimeout: the storages are not cleared
RouteTimeoutNoClear ==
    /\ RouteMounted
    /\ routeTimer = 0
    /\ routeTimer' = Off
    /\ timedOut' = TRUE
    /\ UNCHANGED <<nonAuthVars, impl, mountState, reactVars, storeVars, initVars, bgVars,
                   fp, events, soVars, location>>

\* ProtectedRoute's timer fires.  The callback tests the `loading` of the
\* render that armed it, which is true.
RouteTimeout ==
    /\ RouteMounted
    /\ routeTimer = 0
    /\ routeTimer' = Off
    /\ localStorage' = EmptyLocalStorage
    /\ sessionStorage' = EmptySessionStorage
    /\ timedOut' = TRUE
    /\ UNCHANGED <<nonAuthVars, impl, mountState, reactVars, initVars, bgVars, fp, events,
                   soVars, location>>

\* <Navigate to="/login" replace />: the route unmounts
RedirectToLogin ==
    /\ View = "redirect"
    /\ location' = "/login"
    /\ timedOut' = FALSE
    /\ routeTimer' = Off
    /\ UNCHANGED <<nonAuthVars, impl, mountState, reactVars, storeVars, initVars, bgVars,
                   fp, events, soVars>>

\* Dashboard.handleSignOut calls signOut(): supabase.auth.signOut() starts
SignOutStart ==
    /\ View = "children"
    /\ soPc = "idle"
    /\ soPc' = "awaiting"
    /\ soTimer' = TimerOf(SignOutTimeoutMs)
    /\ UNCHANGED <<nonAuthVars, impl, mountState, reactVars, storeVars, initVars, bgVars,
                   fp, events, routeVars>>

\* signOut clears the local state and returns; handleSignOut then navigates
\* to /login
SignOutFinish ==
    /\ soPc' = "done"
    /\ soTimer' = Off
    /\ user' = "null"
    /\ profile' = "null"
    /\ session' = "null"
    /\ localStorage' = EmptyLocalStorage
    /\ sessionStorage' = EmptySessionStorage
    /\ location' = "/login"
    /\ timedOut' = FALSE
    /\ routeTimer' = Off
    /\ UNCHANGED <<nonAuthVars, impl, mountState, loading, initVars, bgVars, fp, events>>

\* supabase.auth.signOut() resolves or rejects
SignOutResponds ==
    /\ soPc = "awaiting"
    /\ SignOutFinish

\* part_002: the 3 s timer of withTimeout wins
SignOutTimeout ==
    /\ soPc = "awaiting"
    /\ soTimer = 0
    /\ SignOutFinish

\* the armed timers
Timers ==
    {initTimer, bgTimer, soTimer, routeTimer} \cup {fp[i].timer : i \in FpIds}

PendingTimers == {t \in Timers : t # Off}

Elapse(t, d) == IF t = Off THEN Off ELSE t - d

\* time passes until the next timer is due; a due timer fires before time
\* moves on
Tick ==
    /\ PendingTimers # {}
    /\ \A t \in PendingTimers : t > 0
    /\ LET d == CHOOSE x \in PendingTimers : \A t \in PendingTimers : x <= t
       IN  /\ initTimer' = Elapse(initTimer, d)
           /\ bgTimer' = Elapse(bgTimer, d)
           /\ soTimer' = Elapse(soTimer, d)
           /\ routeTimer' = Elapse(routeTimer, d)
           /\ fp' = [i \in FpIds |->
                       [fp[i] EXCEPT !.timer = Elapse(fp[i].timer, d)]]
    /\ UNCHANGED <<nonAuthVars, impl, mountState, reactVars, storeVars, initPc, usedCache,
                   bgPc, bgResp, events, soPc, location, timedOut>>

\* steps the program takes by itself: timers and the passing of time
AuthTimerNext ==
    \/ InitSessionTimeout
    \/ FetchSelectTimeout
    \/ BackgroundSessionTimeout
    \/ SignOutTimeout
    \/ RouteTimeout
    \/ RedirectToLogin
    \/ Tick

\* steps of the environment: React mounting, the user, the backend answering
AuthEnvNext ==
    \/ Mount
    \/ Unmount
    \/ InitSessionResponds
    \/ InitSessionRejects
    \/ FetchSelectResponds
    \/ FetchGetUserResponds
    \/ FetchInsertResponds
    \/ BackgroundSessionResponds
    \/ BackgroundSessionRejects
    \/ BackgroundSessionLate
    \/ AuthStateChange
    \/ NavigateProtected
    \/ SignOutStart
    \/ SignOutResponds

AuthNext == AuthTimerNext \/ AuthEnvNext

(***************************************************************************)
(* useRateLimit (hooks/useOrganization.tsx, second part)                   *)
(***************************************************************************)

HOURLY_LIMIT == 5
BETA_LIMIT == 10
HourMs == 60 * 60 * 1000
MinuteMs == 60000

\* A nullable column or Date is <<>> (null) or <<value>>.
\* x || 0
OrZero(x) == IF x = <<>> THEN 0 ELSE x[1]

\* the number a relational operator makes of a nullable number (null is 0)
ToNumber(x) == IF x = <<>> THEN 0 ELSE x[1]

\* the instants, in ms from the page load, at which a generation may have
\* happened: more than an hour ago, exactly an hour ago, and within the hour
\* with 1 ms, exactly one minute and one minute and 1 ms of the hour left
LastValues ==
    {<<>>, <<0 - HourMs - 1>>, <<0 - HourMs>>, <<1 - HourMs>>,
     <<MinuteMs - HourMs>>, <<MinuteMs + 1 - HourMs>>}

TotalValues == {<<>>, <<BETA_LIMIT - 1>>, <<BETA_LIMIT>>}

HourCountValues == {<<>>, <<HOURLY_LIMIT - 1>>, <<HOURLY_LIMIT>>}

\* the columns fetchRateLimits selects
ProfileRows ==
    [diagrams_generated : TotalValues,
     readmes_generated : {<<>>, <<BETA_LIMIT>>},
     last_diagram_at : LastValues,
     diagrams_this_hour : HourCountValues,
     last_readme_at : {<<>>, <<0 - HourMs - 1>>, <<1 - HourMs>>},
     readmes_this_hour : {<<HOURLY_LIMIT - 1>>, <<HOURLY_LIMIT + 1>>}]

\* useState<RateLimitState>({...})
InitialRateLimitState ==
    [diagramsTotal |-> 0,
     diagramsTotalLimit |-> BETA_LIMIT,
     readmesTotal |-> 0,
     readmesTotalLimit |-> BETA_LIMIT,
     diagramsThisHour |-> 0,
     diagramsHourlyLimit |-> HOURLY_LIMIT,
     readmesThisHour |-> 0,
     readmesHourlyLimit |-> HOURLY_LIMIT,
     canGenerateDiagram |-> TRUE,
     canGenerateReadme |-> TRUE,
     diagramCooldownEndsAt |-> <<>>,
     readmeCooldownEndsAt |-> <<>>,
     loading |-> TRUE]

\* the mutant of ThisHour: a generation exactly one hour ago no longer counts
ThisHourInclusive(lastAt, storedCount, now) ==
    IF lastAt = <<>> \/ lastAt[1] <= now - HourMs
    THEN 0
    ELSE OrZero(storedCount)

\* let diagramsThisHour = profile.diagrams_this_hour || 0
\* if (!lastDiagramAt || lastDiagramAt < hourAgo) diagramsThisHour = 0
ThisHour(lastAt, storedCount, now) ==
    IF lastAt = <<>> \/ lastAt[1] < now - HourMs
    THEN 0
    ELSE OrZero(storedCount)

\* (diagramsThisHour >= HOURLY_LIMIT && lastDiagramAt)
\*     ? new Date(lastDiagramAt.getTime() + 60 * 60 * 1000) : null
CooldownEndsAt(thisHour, lastAt) ==
    IF thisHour >= HOURLY_LIMIT /\ lastAt # <<>>
    THEN <<lastAt[1] + HourMs>>
    ELSE <<>>

\* profile.diagrams_generated < BETA_LIMIT && diagramsThisHour < HOURLY_LIMIT
CanGenerate(total, thisHour) ==
    ToNumber(total) < BETA_LIMIT /\ thisHour < HOURLY_LIMIT

\* the state that fetchRateLimits sets from a fetched profile at time now
ComputeRateLimitState(p, now) ==
    LET diagramsThisHour ==
            ThisHour(p.last_diagram_at, p.diagrams_this_hour, now)
        readmesThisHour ==
            ThisHour(p.last_readme_at, p.readmes_this_hour, now)
    IN [diagramsTotal |-> OrZero(p.diagrams_generated),
        diagramsTotalLimit |-> BETA_LIMIT,
        readmesTotal |-> OrZero(p.readmes_generated),
        readmesTotalLimit |-> BETA_LIMIT,
        diagramsThisHour |-> diagramsThisHour,
        diagramsHourlyLimit |-> HOURLY_LIMIT,
        readmesThisHour |-> readmesThisHour,
        readmesHourlyLimit |-> HOURLY_LIMIT,
        canGenerateDiagram |->
            CanGenerate(p.diagrams_generated, diagramsThisHour),
        canGenerateReadme |->
            CanGenerate(p.readmes_generated, readmesThisHour),
        diagramCooldownEndsAt |->
            CooldownEndsAt(diagramsThisHour, p.last_diagram_at),
        readmeCooldownEndsAt |->
            CooldownEndsAt(readmesThisHour, p.last_readme_at),
        loading |-> FALSE]

\* Math.ceil(a / b) for a > 0, b > 0
Ceil(a, b) == (a + b - 1) \div b

\* formatCooldownTime(endsAt) called at time now.  The result is a string:
\* <<>> is the empty one, <<n, " min">> is `${n} min`.
formatCooldownTime(endsAt, now) ==
    IF endsAt = <<>> THEN <<>>
    ELSE LET diffMs == endsAt[1] - now
         IN IF diffMs <= 0 THEN <<>>
            ELSE <<Ceil(diffMs, MinuteMs), " min">>

\* what the hook returns next to the state
diagramCooldownRemaining ==
    formatCooldownTime(rlState.diagramCooldownEndsAt, rlNow)

readmeCooldownRemaining ==
    formatCooldownTime(rlState.readmeCooldownEndsAt, rlNow)

\* the clock advances by one of these amounts, at most MaxTicks times
ClockSteps == {1, MinuteMs, HourMs}

RlInit ==
    /\ rlUserId \in {<<>>, <<"u1">>}
    /\ rlRow \in ProfileRows
    /\ rlPc = "idle"
    /\ rlState = InitialRateLimitState
    /\ rlProfile = <<>>
    /\ rlFetchNow = 0
    /\ rlNow = 0
    /\ rlTicks = 0

\* fetchRateLimits is called (the effect, or refresh): without a userId it
\* only ends the loading, otherwise it queries the profiles table
FetchRateLimits ==
    /\ rlPc # "fetching"
    /\ IF rlUserId = <<>>
       THEN /\ rlState' = [rlState EXCEPT !.loading = FALSE]
            /\ rlPc' = "done"
       ELSE /\ rlPc' = "fetching"
            /\ rlState' = rlState
    /\ UNCHANGED <<nonRlVars, rlUserId, rlRow, rlProfile, rlFetchNow, rlNow,
                   rlTicks>>

\* the query answers with the row
RateLimitResponds ==
    /\ rlPc = "fetching"
    /\ rlPc' = "done"
    /\ rlProfile' = <<rlRow>>
    /\ rlFetchNow' = rlNow
    /\ rlState' = ComputeRateLimitState(rlRow, rlNow)
    /\ UNCHANGED <<nonRlVars, rlUserId, rlRow, rlNow, rlTicks>>

\* the query answers with an error or without a row, or it throws
RateLimitFails ==
    /\ rlPc = "fetching"
    /\ rlPc' = "done"
    /\ rlState' = [rlState EXCEPT !.loading = FALSE]
    /\ UNCHANGED <<nonRlVars, rlUserId, rlRow, rlProfile, rlFetchNow, rlNow,
                   rlTicks>>

\* time passes
RlTick ==
    /\ rlTicks < MaxTicks
    /\ rlTicks' = rlTicks + 1
    /\ \E dt \in ClockSteps : rlNow' = rlNow + dt
    /\ UNCHANGED <<nonRlVars, rlUserId, rlRow, rlPc, rlState, rlProfile,
                   rlFetchNow>>

RlNext == FetchRateLimits \/ RateLimitResponds \/ RateLimitFails \/ RlTick

(***************************************************************************)
(* OrganizationProvider (hooks/useOrganization.tsx, first part) and the    *)
(* backend tables it queries                                                *)
(***************************************************************************)

Users == {"u1", "u2"}

\* the signed-in user
Me == "u1"

\* OrgMember['role']
Roles == {"owner", "admin", "member", "viewer"}

OrgIds == 1..MaxOrgs

\* an Organization, by the two fields the code reads
Org(id, owner) == [id |-> id, owner_id |-> owner]

\* an OrgMember
MemberRow(orgId, userId, role) ==
    [id |-> <<orgId, userId>>, org_id |-> orgId, user_id |-> userId,
     role |-> role]

\* profile?.subscription_tier
TierValues == {<<>>, <<"free">>, <<"pro">>, <<"enterprise">>}

FreeOrgLimit == 1
ProOrgLimit == 5

\* const tier = profile?.subscription_tier || 'free'
TierOf(t) == IF t = <<>> THEN "free" ELSE t[1]

\* the mutant of OrgLimit: the pro tier is not limited
OrgLimitProUnlimited(t) ==
    IF t = "free" THEN <<FreeOrgLimit>> ELSE <<>>

\* const limit = tier === 'free' ? 1 : (tier === 'pro' ? 5 : Infinity)
\* <<>> is Infinity
OrgLimit(t) ==
    IF t = "free" THEN <<FreeOrgLimit>>
    ELSE IF t = "pro" THEN <<ProOrgLimit>>
    ELSE <<>>

\* userOrgs.filter(o => o.owner_id === user.id)
OwnedOrgs(orgs, userId) == {o \in orgs : o.owner_id = userId}

\* ownedOrgs.length >= limit
LimitReached(owned, limit) ==
    limit # <<>> /\ Cardinality(owned) >= limit[1]

\* userOrgs.find(o => o.id === id): <<>> when there is none
FindOrg(orgs, id) ==
    LET found == {o \in orgs : o.id = id}
    IN IF found = {} THEN <<>> ELSE <<CHOOSE o \in found : TRUE>>

\* org?.id
OrgIdOf(o) == IF o = <<>> THEN <<>> ELSE <<o[1].id>>

\* memberships.find(m => m.org_id === orgId)?.role || null ("none" is null)
userRole(orgId) ==
    LET found == {m \in memberships : m.org_id = orgId}
    IN IF found = {} THEN "none" ELSE (CHOOSE m \in found : TRUE).role

\* currentOrg ? ['owner', 'admin'].includes(userRole(currentOrg.id) || '')
\*            : false
canManageMembers ==
    IF currentOrg # <<>>
    THEN userRole(currentOrg[1].id) \in {"owner", "admin"}
    ELSE FALSE

\* the org_members rows of a user with their organizations joined in
\* (the select of fetchUserOrgs)
MemberData(userId) == {m \in dbMembers : m.user_id = userId}

\* memberData.filter(m => m.organizations).map(m => m.organizations)
JoinedOrgs(memberData) ==
    {o \in dbOrgs : \E m \in memberData : m.org_id = o.id}

\* The effect that restores the selection, run after userOrgs changed: the
\* saved id is looked up in the new list.
Restored(orgs, cur, saved) ==
    IF saved # <<>> /\ orgs # {} /\ FindOrg(orgs, saved[1]) # <<>>
    THEN FindOrg(orgs, saved[1])
    ELSE cur

\* how a createOrg call ended: kind is "none" (never called), "null"
\* (returned null), "throw" (the limit error, with its limit and tier),
\* "pending" (awaiting the insert) or "data" (the inserted organization)
CreateResult(kind, limit, t, orgId) ==
    [kind |-> kind, limit |-> limit, tier |-> t, org |-> orgId]

NoResult == CreateResult("none", 0, "", 0)

\* the in-flight fetchUserOrgs calls: those nobody waits for but the
\* provider itself, and those of TeamSettings.handleDeleteOrg
NoFetches == [plain |-> 0, team |-> 0]

\* TeamSettings: const org = orgId ? userOrgs.find(o => o.id === orgId)
\*                                 : currentOrg
TsOrgFor(orgs, cur, param) ==
    IF param # <<>> THEN FindOrg(orgs, param[1]) ELSE cur

TsOrg == TsOrgFor(userOrgs, currentOrg, tsOrgId)

\* loadMembers() of a render whose org has this id: setLoading(true), then
\* await getMembers(org.id)
LoadMembersStart(orgId) ==
    /\ tsLoading' = TRUE
    /\ tsLoads' = tsLoads \cup {orgId}

\* The effect of TeamSettings on [org?.id], after a render in which the
\* organization shown became newOrg.
TeamEffect(newOrg) ==
    IF tsPage = "team" /\ newOrg # <<>> /\ OrgIdOf(newOrg) # OrgIdOf(TsOrg)
    THEN LoadMembersStart(newOrg[1].id)
    ELSE UNCHANGED <<tsLoading, tsLoads>>

\* the team page is untouched but for its effect
TeamFollows(newOrg) ==
    /\ TeamEffect(newOrg)
    /\ UNCHANGED <<tsPage, tsOrgId, members, showDeleteConfirm, tsPending,
                   tsMutations>>

\* The organizations of the backend when the page loads: orgs 1..n owned
\* by the user and, possibly, the last org owned by somebody else, in which
\* the user has myRole ("none": is no member).
DbOrgsOf(n, other) ==
    {Org(i, Me) : i \in 1..n}
        \cup (IF other THEN {Org(MaxOrgs, "u2")} ELSE {})

DbMembersOf(n, other, myRole) ==
    {MemberRow(i, Me, "owner") : i \in 1..n}
        \cup (IF other
              THEN {MemberRow(MaxOrgs, "u2", "owner")}
                   \cup (IF myRole = "none" THEN {}
                         ELSE {MemberRow(MaxOrgs, Me, myRole)})
              ELSE {})

\* the state after the first render and its effects: nobody is signed in
\* yet, fetchUserOrgs has ended the loading, the persisting effect has
\* removed the saved selection
OrgInit ==
    /\ orgUser = <<>>
    /\ tier = <<>>
    /\ currentOrg = <<>>
    /\ userOrgs = {}
    /\ memberships = {}
    /\ orgLoading = FALSE
    /\ savedOrgId = <<>>
    /\ orgFetches = NoFetches
    /\ orgInserts = 0
    /\ orgDeletes = {}
    /\ createResult = NoResult
    /\ loadedOrgId = <<>>

TeamInit ==
    /\ tsPage = "none"
    /\ tsOrgId = <<>>
    /\ members = {}
    /\ tsLoading = TRUE
    /\ showDeleteConfirm = FALSE
    /\ tsLoads = {}
    /\ tsPending = {}
    /\ tsMutations = 0

\* TeamSettings unmounts: its state is gone, nobody listens to the
\* getMembers calls in flight, and the mutations in flight go on without a
\* component to update
TeamUnmounts ==
    /\ tsPage' = "none"
    /\ tsOrgId' = <<>>
    /\ members' = {}
    /\ tsLoading' = TRUE
    /\ showDeleteConfirm' = FALSE
    /\ tsLoads' = {}
    /\ tsPending' = {[p EXCEPT !.live = FALSE] : p \in tsPending}
    /\ tsMutations' = tsMutations

\* fetchUserOrgs() is called and will be awaited by `waiter`
FetchUserOrgsStart(waiter) ==
    /\ orgFetches[waiter] < MaxInFlight
    /\ orgFetches' = [orgFetches EXCEPT ![waiter] = @ + 1]

\* useAuth() delivers the signed-in user; the effect calls fetchUserOrgs
OrgSignIn ==
    /\ orgUser = <<>>
    /\ orgUser' = <<Me>>
    /\ FetchUserOrgsStart("plain")
    /\ UNCHANGED <<nonOrgVars, dbVars, teamVars, tier, currentOrg, userOrgs,
                   memberships, orgLoading, savedOrgId, orgInserts,
                   orgDeletes, createResult>>

\* useAuth() delivers no user any more; the effect calls fetchUserOrgs,
\* which empties the lists, and the ProtectedRoute leaves for /login.
\* currentOrg is left as it is.  When signOut() was the cause, its
\* localStorage.clear() has removed the saved selection; after an
\* auth-state change without signOut it is still there.
OrgSignOut ==
    /\ orgUser # <<>>
    /\ orgUser' = <<>>
    /\ tier' = <<>>
    /\ userOrgs' = {}
    /\ memberships' = {}
    /\ orgLoading' = FALSE
    /\ \E cleared \in BOOLEAN :
         savedOrgId' = IF cleared THEN <<>> ELSE savedOrgId
    /\ TeamUnmounts
    /\ UNCHANGED <<nonOrgVars, dbVars, currentOrg, orgFetches, orgInserts,
                   orgDeletes, createResult>>

\* useAuth() delivers the profile, with its subscription tier
ProfileLoads ==
    /\ orgUser # <<>>
    /\ \E t \in TierValues : tier' = t /\ t # tier
    /\ UNCHANGED <<nonOrgVars, dbVars, teamVars, orgUser, currentOrg,
                   userOrgs, memberships, orgLoading, savedOrgId,
                   orgFetches, orgInserts, orgDeletes, createResult>>

\* refresh() of the context: fetchUserOrgs with a user
RefreshOrgs ==
    /\ orgUser # <<>>
    /\ FetchUserOrgsStart("plain")
    /\ UNCHANGED <<nonOrgVars, dbVars, teamVars, orgUser, tier, currentOrg,
                   userOrgs, memberships, orgLoading, savedOrgId, orgInserts,
                   orgDeletes, createResult>>

\* what a fetchUserOrgs call does to the provider once its query answered
\* with the rows of the user: the lists are replaced, the loading ends, the
\* restoring effect and then the persisting effect run
FetchUserOrgsDone(memberData) ==
    /\ userOrgs' = JoinedOrgs(memberData)
    /\ memberships' = memberData
    /\ orgLoading' = FALSE
    /\ currentOrg' = Restored(JoinedOrgs(memberData), currentOrg, savedOrgId)
    /\ savedOrgId' = OrgIdOf(currentOrg')

\* a fetchUserOrgs query of the provider answers
FetchUserOrgsResponds ==
    /\ orgFetches.plain > 0
    /\ orgFetches' = [orgFetches EXCEPT !.plain = @ - 1]
    /\ FetchUserOrgsDone(MemberData(Me))
    /\ TeamFollows(TsOrgFor(userOrgs', currentOrg', tsOrgId))
    /\ UNCHANGED <<nonOrgVars, dbVars, orgUser, tier, orgInserts, orgDeletes,
                   createResult>>

\* a fetchUserOrgs query fails: only the loading ends
FetchUserOrgsFails ==
    /\ orgFetches.plain > 0
    /\ orgFetches' = [orgFetches EXCEPT !.plain = @ - 1]
    /\ orgLoading' = FALSE
    /\ UNCHANGED <<nonOrgVars, dbVars, teamVars, orgUser, tier, currentOrg,
                   userOrgs, memberships, savedOrgId, orgInserts, orgDeletes,
                   createResult>>

\* setCurrentOrg(org) from the OrgSwitcher of the Dashboard, a protected
\* page: an organization of the list, or null for the personal workspace;
\* the persisting effect follows
SetCurrentOrg ==
    /\ orgUser # <<>>
    /\ \E o \in {<<>>} \cup {<<x>> : x \in userOrgs} :
         /\ o # currentOrg
         /\ currentOrg' = o
    /\ savedOrgId' = OrgIdOf(currentOrg')
    /\ TeamFollows(TsOrgFor(userOrgs, currentOrg', tsOrgId))
    /\ UNCHANGED <<nonOrgVars, dbVars, orgUser, tier, userOrgs, memberships,
                   orgLoading, orgFetches, orgInserts, orgDeletes,
                   createResult>>

\* the smallest id no organization has
NewOrgId == CHOOSE i \in OrgIds :
    /\ \A o \in dbOrgs : o.id # i
    /\ \A j \in 1..(i - 1) : \E o \in dbOrgs : o.id = j

\* createOrg(name, slug) up to its first await
CreateOrg ==
    /\ IF orgUser = <<>>
       THEN /\ createResult' = CreateResult("null", 0, "", 0)
            /\ orgInserts' = orgInserts
       ELSE LET t == TierOf(tier)
                limit == OrgLimit(t)
                ownedOrgs == OwnedOrgs(userOrgs, orgUser[1])
            IN IF LimitReached(ownedOrgs, limit)
               THEN /\ createResult' = CreateResult("throw", limit[1], t, 0)
                    /\ orgInserts' = orgInserts
               ELSE /\ orgInserts < MaxInFlight
                    /\ orgInserts' = orgInserts + 1
                    /\ createResult' = CreateResult("pending", 0, "", 0)
    /\ UNCHANGED <<nonOrgVars, dbVars, teamVars, orgUser, tier, currentOrg,
                   userOrgs, memberships, orgLoading, savedOrgId, orgFetches,
                   orgDeletes>>

\* The insert of a createOrg call succeeds: the backend stores the
\* organization and the membership of its owner, createOrg goes on to
\* `await fetchUserOrgs()` and will return the row.
CreateOrgInserted ==
    /\ orgInserts > 0
    /\ \E i \in OrgIds : \A o \in dbOrgs : o.id # i
    /\ orgInserts' = orgInserts - 1
    /\ dbOrgs' = dbOrgs \cup {Org(NewOrgId, Me)}
    /\ dbMembers' = dbMembers \cup {MemberRow(NewOrgId, Me, "owner")}
    /\ createResult' = CreateResult("data", 0, "", NewOrgId)
    /\ FetchUserOrgsStart("plain")
    /\ UNCHANGED <<nonOrgVars, teamVars, orgUser, tier, currentOrg, userOrgs,
                   memberships, orgLoading, savedOrgId, orgDeletes>>

\* the insert fails: createOrg logs the error and returns null
CreateOrgInsertFails ==
    /\ orgInserts > 0
    /\ orgInserts' = orgInserts - 1
    /\ createResult' = CreateResult("null", 0, "", 0)
    /\ UNCHANGED <<nonOrgVars, dbVars, teamVars, orgUser, tier, currentOrg,
                   userOrgs, memberships, orgLoading, savedOrgId, orgFetches,
                   orgDeletes>>

\* a deleteOrg(orgId) call up to its await; it remembers whether the org was
\* the current one of the render that made the call
DeleteOrgCall(orgId, fromTeam) ==
    /\ tsMutations < MaxMutations
    /\ tsMutations' = tsMutations + 1
    /\ orgDeletes' = orgDeletes \cup
           {[orgId |-> orgId, wasCurrent |-> OrgIdOf(currentOrg) = <<orgId>>,
             fromTeam |-> fromTeam]}

\* The delete of a deleteOrg call succeeds: the backend drops the
\* organization with its memberships, deleteOrg clears currentOrg if it was
\* the deleted one and goes on to `await fetchUserOrgs()`.
DeleteOrgDeleted ==
    /\ \E d \in orgDeletes :
         /\ orgDeletes' = orgDeletes \ {d}
         /\ dbOrgs' = {o \in dbOrgs : o.id # d.orgId}
         /\ dbMembers' = {m \in dbMembers : m.org_id # d.orgId}
         /\ currentOrg' = IF d.wasCurrent THEN <<>> ELSE currentOrg
         /\ FetchUserOrgsStart(IF d.fromTeam THEN "team" ELSE "plain")
    /\ savedOrgId' = OrgIdOf(currentOrg')
    /\ TeamFollows(TsOrgFor(userOrgs, currentOrg', tsOrgId))
    /\ UNCHANGED <<nonOrgVars, orgUser, tier, userOrgs, memberships,
                   orgLoading, orgInserts, createResult>>

\* the delete fails: deleteOrg returns false (handleDeleteOrg shows a toast)
DeleteOrgFails ==
    /\ \E d \in orgDeletes : orgDeletes' = orgDeletes \ {d}
    /\ UNCHANGED <<nonOrgVars, dbVars, orgUser, tier, currentOrg, userOrgs,
                   memberships, orgLoading, savedOrgId, orgFetches,
                   orgInserts, createResult, tsPage, tsOrgId,
                   members, tsLoading, showDeleteConfirm,
                   tsLoads, tsPending,
                   tsMutations>>

\* the page is loaded again: the state of every component is the initial
\* one, nothing of the old page is awaited any more, and the first effects
\* run as at the start
OrgReload ==
    /\ orgUser' = <<>>
    /\ tier' = <<>>
    /\ currentOrg' = <<>>
    /\ userOrgs' = {}
    /\ memberships' = {}
    /\ orgLoading' = FALSE
    /\ savedOrgId' = <<>>
    /\ orgFetches' = NoFetches
    /\ orgInserts' = 0
    /\ orgDeletes' = {}
    /\ createResult' = NoResult
    /\ tsPage' = "none"
    /\ tsOrgId' = <<>>
    /\ members' = {}
    /\ tsLoading' = TRUE
    /\ showDeleteConfirm' = FALSE
    /\ tsLoads' = {}
    /\ tsPending' = {}
    /\ tsMutations' = 0
    /\ loadedOrgId' = savedOrgId
    /\ UNCHANGED <<apiVars, authVars, rlVars, backoff, fetchVars, dbVars,
                   pageVars>>

(***************************************************************************)
(* TeamSettings (pages/TeamSettings.tsx)                                    *)
(***************************************************************************)

\* the :orgId values of the route /team/:orgId that are tried: the ids of
\* the organizations, and 0 for a value that names none of them ('new')
TeamParams == {<<>>} \cup {<<i>> : i \in 0..MaxOrgs}

\* the page renders its sections (and not "No organization selected")
TeamShown == tsPage = "team" /\ TsOrg # <<>>

\* const myRole = userRole(org.id)
myRole == userRole(TsOrg[1].id)

\* const isOwner = myRole === 'owner'
isOwner == myRole = "owner"

\* {canManageMembers && (<button>Invite Member</button>)}
ShowsInvite == TeamShown /\ canManageMembers

\* {canManageMembers && member.role !== 'owner' ? <select> : <span>}
ShowsRoleSelect(member) ==
    /\ TeamShown
    /\ ~tsLoading
    /\ canManageMembers
    /\ member.role # "owner"

\* the <option>s of the role selector
SelectableRoles == {"admin", "member", "viewer"}

\* the mutant of ShowsRemove: the user's own row has the button too
ShowsRemoveOwnRow(member) ==
    /\ TeamShown
    /\ ~tsLoading
    /\ canManageMembers
    /\ member.role # "owner"

\* {canManageMembers && member.role !== 'owner'
\*    && member.user_id !== user?.id && (<button title="Remove member">)}
ShowsRemove(member) ==
    /\ TeamShown
    /\ ~tsLoading
    /\ canManageMembers
    /\ member.role # "owner"
    /\ <<member.user_id>> # orgUser

\* {isOwner && (<section className="team-section danger-zone">)}
ShowsDelete == TeamShown /\ isOwner

\* a member mutation in flight: the call, the row it was made for, the
\* organization of the render that made it, and whether the component that
\* made it is still mounted
Mutation(op, member, role, orgId) ==
    [op |-> op, member |-> member, role |-> role, org |-> orgId,
     live |-> TRUE]

\* the user opens /team or /team/:orgId; a page that is already mounted
\* keeps its state and only sees the new parameter
NavigateTeam ==
    /\ orgUser # <<>>
    /\ \E param \in TeamParams :
         /\ IF param = <<>> THEN TRUE
            ELSE IF param[1] = 0 THEN TRUE
            ELSE \E o \in dbOrgs : o.id = param[1]
         /\ tsPage = "team" => param # tsOrgId
         /\ tsOrgId' = param
         /\ tsPage' = "team"
         /\ LET newOrg == TsOrgFor(userOrgs, currentOrg, param)
                changed == tsPage = "none"
                           \/ OrgIdOf(newOrg) # OrgIdOf(TsOrg)
            IN IF newOrg # <<>> /\ changed
               THEN LoadMembersStart(newOrg[1].id)
               ELSE UNCHANGED <<tsLoading, tsLoads>>
    /\ UNCHANGED <<nonOrgVars, dbVars, orgVars, members, showDeleteConfirm, tsPending,
                   tsMutations>>

\* the user leaves the page
LeaveTeam ==
    /\ tsPage = "team"
    /\ TeamUnmounts
    /\ UNCHANGED <<nonOrgVars, dbVars, orgVars>>

\* getMembers(orgId) answers with the rows of the organization (or fails
\* and returns []): setMembers, setLoading(false)
LoadMembersResponds ==
    /\ tsPage = "team"
    /\ \E orgId \in tsLoads, ok \in BOOLEAN :
         /\ tsLoads' = tsLoads \ {orgId}
         /\ members' = IF ok THEN {m \in dbMembers : m.org_id = orgId}
                       ELSE {}
    /\ tsLoading' = FALSE
    /\ UNCHANGED <<nonOrgVars, dbVars, orgVars, tsPage, tsOrgId,
                   showDeleteConfirm, tsPending,
                   tsMutations>>

\* the user picks another role in the selector of a row:
\* handleRoleChange(member.id, newRole) up to its await
HandleRoleChange ==
    /\ tsMutations < MaxMutations
    /\ tsMutations' = tsMutations + 1
    /\ \E member \in members, newRole \in SelectableRoles :
         /\ ShowsRoleSelect(member)
         /\ newRole # member.role
         /\ tsPending' = tsPending \cup
                {Mutation("updateMemberRole", member, newRole, TsOrg[1].id)}
    /\ UNCHANGED <<nonOrgVars, dbVars, orgVars, tsPage, tsOrgId, members,
                   tsLoading, showDeleteConfirm, tsLoads>>

\* the user clicks the remove button of a row: handleRemoveMember(member)
\* up to its await
HandleRemoveMember ==
    /\ \E member \in members :
         /\ ShowsRemove(member)
         /\ IF member.role = "owner"
            THEN UNCHANGED <<tsPending, tsMutations>>
                 \* 'Cannot remove the owner'
            ELSE /\ tsMutations < MaxMutations
                 /\ tsMutations' = tsMutations + 1
                 /\ tsPending' = tsPending \cup
                        {Mutation("removeMember", member, member.role,
                                  TsOrg[1].id)}
    /\ UNCHANGED <<nonOrgVars, dbVars, orgVars, tsPage, tsOrgId, members,
                   tsLoading, showDeleteConfirm, tsLoads>>

\* what a member mutation does to the org_members table
Applied(p) ==
    IF p.op = "removeMember"
    THEN {m \in dbMembers : m.id # p.member.id}
    ELSE {IF m.id = p.member.id THEN [m EXCEPT !.role = p.role] ELSE m :
              m \in dbMembers}

\* updateMemberRole / removeMember answers: on success the handler shows a
\* toast and calls the loadMembers of the render that made the call, on
\* failure it shows the error toast
MutationResponds ==
    /\ \E p \in tsPending, ok \in BOOLEAN :
         /\ tsPending' = tsPending \ {p}
         /\ dbMembers' = IF ok THEN Applied(p) ELSE dbMembers
         /\ IF ok /\ p.live /\ tsPage = "team"
            THEN LoadMembersStart(p.org)
            ELSE UNCHANGED <<tsLoading, tsLoads>>
    /\ UNCHANGED <<nonOrgVars, dbOrgs, orgVars, tsPage, tsOrgId, members,
                   showDeleteConfirm, tsMutations>>

\* Delete Organization is clicked, or the confirmation is cancelled
ToggleDeleteConfirm ==
    /\ IF showDeleteConfirm THEN TeamShown ELSE ShowsDelete
    /\ showDeleteConfirm' = ~showDeleteConfirm
    /\ UNCHANGED <<nonOrgVars, dbVars, orgVars, tsPage, tsOrgId, members,
                   tsLoading, tsLoads, tsPending,
                   tsMutations>>

\* Delete Forever is clicked: handleDeleteOrg up to its await
HandleDeleteOrg ==
    /\ TeamShown
    /\ showDeleteConfirm
    /\ DeleteOrgCall(TsOrg[1].id, TRUE)
    /\ UNCHANGED <<nonOrgVars, dbVars, tsPage, tsOrgId, members, tsLoading,
                   showDeleteConfirm, tsLoads, tsPending, orgUser, tier,
                   currentOrg,
                   userOrgs, memberships, orgLoading, savedOrgId, orgFetches,
                   orgInserts, createResult>>

\* The fetchUserOrgs that the deleteOrg call of handleDeleteOrg awaited has
\* ended (its query answered or failed): deleteOrg returns true, the
\* handler shows the toast and navigates to /dashboard.
DeleteOrgReturns ==
    /\ orgFetches.team > 0
    /\ orgFetches' = [orgFetches EXCEPT !.team = @ - 1]
    /\ \E ok \in BOOLEAN :
         IF ok
         THEN FetchUserOrgsDone(MemberData(Me))
         ELSE /\ orgLoading' = FALSE
              /\ UNCHANGED <<userOrgs, memberships, currentOrg, savedOrgId>>
    /\ TeamUnmounts
    /\ UNCHANGED <<nonOrgVars, dbVars, orgUser, tier, orgInserts, orgDeletes,
                   createResult>>

\* the provider with its createOrg called in any state (deleteOrg has one
\* caller, the team page)
OrgNext ==
    \/ OrgSignIn
    \/ OrgSignOut
    \/ ProfileLoads
    \/ RefreshOrgs
    \/ FetchUserOrgsResponds
    \/ FetchUserOrgsFails
    \/ SetCurrentOrg
    \/ CreateOrg
    \/ CreateOrgInserted
    \/ CreateOrgInsertFails
    \/ OrgReload

\* the team page over the provider
TeamNext ==
    \/ OrgSignIn
    \/ FetchUserOrgsResponds
    \/ FetchUserOrgsFails
    \/ SetCurrentOrg
    \/ NavigateTeam
    \/ LeaveTeam
    \/ LoadMembersResponds
    \/ HandleRoleChange
    \/ HandleRemoveMember
    \/ MutationResponds
    \/ ToggleDeleteConfirm
    \/ HandleDeleteOrg
    \/ DeleteOrgDeleted
    \/ DeleteOrgFails
    \/ DeleteOrgReturns

(***************************************************************************)
(* Dashboard (pages/Dashboard.tsx): generateDiagram and generateReadme     *)
(***************************************************************************)

RepoIds == 1..MaxRepos
RunIds == 1..MaxRuns

\* Repository.status
Statuses == {"pending", "processing", "ready", "error"}

\* repo.diagram_code of the rows: the first repository has one (its card
\* shows Update Diagram), the others have none
HasDiagramCode(r) == r = 1

\* a generate call at one of its awaits
Run(kind, r, pc, seen) == [kind |-> kind, repo |-> r, pc |-> pc, seen |-> seen]

\* no call (not made yet, or returned)
NoRun == Run("none", 0, "done", 0)

\* the calls in flight for repository r
InFlight(r) == {i \in RunIds : runs[i] # NoRun /\ runs[i].repo = r}

\* the Dashboard is shown to a signed-in user with a profile, the
\* repositories are connected and fetchConnectedRepos has answered
DashInit ==
    /\ dbReadmes = 0
    /\ dbRepoStatus = [r \in RepoIds |-> IF HasDiagramCode(r) THEN "ready"
                                         ELSE "pending"]
    /\ dbReadme = [r \in RepoIds |-> FALSE]
    /\ profileReadmes = 0
    /\ shownStatus = dbRepoStatus
    /\ shownReadme = dbReadme
    /\ processingRepos = {}
    /\ diagramModal = <<>>
    /\ runs = [i \in RunIds |-> NoRun]
    /\ started = 0
    /\ repoFetches = 0
    /\ readmeDone = 0
    /\ lastDiagram = [r \in RepoIds |-> "none"]

\* setProcessingRepos(prev => new Set(prev).add(repo.id))
AddProcessing(set, r) == set \cup {r}

\* setProcessingRepos(prev => { next.delete(repo.id) }) of the finally block
DeleteProcessing(set, r) == set \ {r}

\* generateDiagram(repo, type) / generateReadme(repo) up to the first await
StartRun(kind, r) ==
    /\ started < MaxRuns
    /\ started' = started + 1
    /\ processingRepos' = AddProcessing(processingRepos, r)
    /\ runs' = [runs EXCEPT ![started + 1] =
                  Run(kind, r,
                      IF kind = "diagram" THEN "setProcessing" ELSE "invoke",
                      profileReadmes)]

\* the finally block: the call returns
EndRun(i) ==
    /\ processingRepos' = DeleteProcessing(processingRepos, runs[i].repo)
    /\ runs' = [runs EXCEPT ![i] = NoRun]

\* the Generate / Add Diagram button of a card: setDiagramModal
OpenDiagramModal ==
    /\ \E r \in RepoIds :
         /\ r \notin processingRepos
         /\ diagramModal # <<r>>
         /\ diagramModal' = <<r>>
    /\ UNCHANGED <<nonDashVars, dbReadmes, dbRepoStatus, dbReadme,
                   profileReadmes, shownStatus, shownReadme, processingRepos,
                   runs, started, repoFetches, readmeDone, lastDiagram>>

\* onClose of the modal
CloseDiagramModal ==
    /\ diagramModal # <<>>
    /\ diagramModal' = <<>>
    /\ UNCHANGED <<nonDashVars, dbReadmes, dbRepoStatus, dbReadme,
                   profileReadmes, shownStatus, shownReadme, processingRepos,
                   runs, started, repoFetches, readmeDone, lastDiagram>>

\* handleGenerate of the modal: onGenerate(selectedType), onClose()
ModalGenerate ==
    /\ diagramModal # <<>>
    /\ StartRun("diagram", diagramModal[1])
    /\ diagramModal' = <<>>
    /\ UNCHANGED <<nonDashVars, dbReadmes, dbRepoStatus, dbReadme,
                   profileReadmes, shownStatus, shownReadme, repoFetches,
                   readmeDone, lastDiagram>>

\* the Update Diagram button of a card with a diagram_code
UpdateDiagramClick ==
    /\ \E r \in RepoIds :
         /\ HasDiagramCode(r)
         /\ r \notin processingRepos
         /\ StartRun("diagram", r)
    /\ UNCHANGED <<nonDashVars, dbReadmes, dbRepoStatus, dbReadme,
                   profileReadmes, shownStatus, shownReadme, diagramModal,
                   repoFetches, readmeDone, lastDiagram>>

\* the Generate README button of a card without readme_content
GenerateReadmeClick ==
    /\ \E r \in RepoIds :
         /\ ~shownReadme[r]
         /\ r \notin processingRepos
         /\ StartRun("readme", r)
    /\ UNCHANGED <<nonDashVars, dbReadmes, dbRepoStatus, dbReadme,
                   profileReadmes, shownStatus, shownReadme, diagramModal,
                   repoFetches, readmeDone, lastDiagram>>

\* generateDiagram: the update to status 'processing' has been awaited
StatusProcessingWritten ==
    /\ \E i \in RunIds :
         /\ runs[i].pc = "setProcessing"
         /\ dbRepoStatus' = [dbRepoStatus EXCEPT ![runs[i].repo] = "processing"]
         /\ runs' = [runs EXCEPT ![i].pc = "invoke"]
    /\ UNCHANGED <<nonDashVars, dbReadmes, dbReadme, profileReadmes,
                   shownStatus, shownReadme, processingRepos, diagramModal,
                   started, repoFetches, readmeDone, lastDiagram>>

\* supabase.functions.invoke answers without error.  generate-diagram has
\* stored the diagram and marked the repository ready; generateDiagram goes
\* on to `await fetchConnectedRepos()`, generateReadme to the update of
\* readme_content.
InvokeSucceeds ==
    /\ \E i \in RunIds :
         /\ runs[i].pc = "invoke"
         /\ IF runs[i].kind = "diagram"
            THEN /\ dbRepoStatus' = [dbRepoStatus EXCEPT ![runs[i].repo] = "ready"]
                 /\ runs' = [runs EXCEPT ![i].pc = "fetchRepos"]
            ELSE /\ dbRepoStatus' = dbRepoStatus
                 /\ runs' = [runs EXCEPT ![i].pc = "updateRepo"]
    /\ UNCHANGED <<nonDashVars, dbReadmes, dbReadme, profileReadmes,
                   shownStatus, shownReadme, processingRepos, diagramModal,
                   started, repoFetches, readmeDone, lastDiagram>>

\* the invocation answers with an error (or rejects): the catch block.
\* generateDiagram awaits the update to status 'error'; generateReadme shows
\* the toast and returns through finally.
InvokeFails ==
    /\ \E i \in RunIds :
         /\ runs[i].pc = "invoke"
         /\ IF runs[i].kind = "diagram"
            THEN /\ runs' = [runs EXCEPT ![i].pc = "setError"]
                 /\ UNCHANGED processingRepos
            ELSE EndRun(i)
    /\ UNCHANGED <<nonDashVars, dbReadmes, dbRepoStatus, dbReadme,
                   profileReadmes, shownStatus, shownReadme, diagramModal,
                   started, repoFetches, readmeDone, lastDiagram>>

\* generateDiagram, catch block: the update to status 'error' has been
\* awaited; finally
StatusErrorWritten ==
    /\ \E i \in RunIds :
         /\ runs[i].pc = "setError"
         /\ dbRepoStatus' = [dbRepoStatus EXCEPT ![runs[i].repo] = "error"]
         /\ lastDiagram' = [lastDiagram EXCEPT ![runs[i].repo] = "failed"]
         /\ EndRun(i)
    /\ UNCHANGED <<nonDashVars, dbReadmes, dbReadme, profileReadmes,
                   shownStatus, shownReadme, diagramModal, started,
                   repoFetches, readmeDone>>

\* generateDiagram: the awaited fetchConnectedRepos() returns, with the rows
\* (setConnectedRepos(data)) or after an error (a toast)
DiagramReposFetched ==
    /\ \E i \in RunIds, ok \in BOOLEAN :
         /\ runs[i].pc = "fetchRepos"
         /\ shownStatus' = IF ok THEN dbRepoStatus ELSE shownStatus
         /\ shownReadme' = IF ok THEN dbReadme ELSE shownReadme
         /\ runs' = [runs EXCEPT ![i].pc = "refreshProfile"]
    /\ UNCHANGED <<nonDashVars, dbReadmes, dbRepoStatus, dbReadme,
                   profileReadmes, processingRepos, diagramModal, started,
                   repoFetches, readmeDone, lastDiagram>>

\* generateReadme: the update of readme_content has been awaited
ReadmeRepoUpdated ==
    /\ \E i \in RunIds :
         /\ runs[i].pc = "updateRepo"
         /\ dbReadme' = [dbReadme EXCEPT ![runs[i].repo] = TRUE]
         /\ runs' = [runs EXCEPT ![i].pc = "updateCount"]
    /\ UNCHANGED <<nonDashVars, dbReadmes, dbRepoStatus, profileReadmes,
                   shownStatus, shownReadme, processingRepos, diagramModal,
                   started, repoFetches, readmeDone, lastDiagram>>

\* generateReadme: update({ readmes_generated: profile.readmes_generated
\* + 1 }) has been awaited; fetchConnectedRepos() is called and not awaited,
\* refreshProfile() is awaited
ReadmeCountUpdated ==
    /\ \E i \in RunIds :
         /\ runs[i].pc = "updateCount"
         /\ dbReadmes' = runs[i].seen + 1
         /\ runs' = [runs EXCEPT ![i].pc = "refreshProfile"]
    /\ repoFetches' = repoFetches + 1
    /\ UNCHANGED <<nonDashVars, dbRepoStatus, dbReadme, profileReadmes,
                   shownStatus, shownReadme, processingRepos, diagramModal,
                   started, readmeDone, lastDiagram>>

\* refreshProfile() returns: fetchProfile gave the stored profile
\* (setProfile) or null (timeout, error); the success toast; finally
ProfileRefreshed ==
    /\ \E i \in RunIds, ok \in BOOLEAN :
         /\ runs[i].pc = "refreshProfile"
         /\ profileReadmes' = IF ok THEN dbReadmes ELSE profileReadmes
         /\ readmeDone' = IF runs[i].kind = "readme" THEN readmeDone + 1
                          ELSE readmeDone
         /\ lastDiagram' = IF runs[i].kind = "diagram"
                           THEN [lastDiagram EXCEPT ![runs[i].repo] = "ok"]
                           ELSE lastDiagram
         /\ EndRun(i)
    /\ UNCHANGED <<nonDashVars, dbReadmes, dbRepoStatus, dbReadme,
                   shownStatus, shownReadme, diagramModal, started,
                   repoFetches>>

\* a fetchConnectedRepos() that nobody awaits returns
ReposFetched ==
    /\ repoFetches > 0
    /\ repoFetches' = repoFetches - 1
    /\ \E ok \in BOOLEAN :
         /\ shownStatus' = IF ok THEN dbRepoStatus ELSE shownStatus
         /\ shownReadme' = IF ok THEN dbReadme ELSE shownReadme
    /\ UNCHANGED <<nonDashVars, dbReadmes, dbRepoStatus, dbReadme,
                   profileReadmes, processingRepos, diagramModal, runs,
                   started, readmeDone, lastDiagram>>

DashNext ==
    \/ OpenDiagramModal
    \/ CloseDiagramModal
    \/ ModalGenerate
    \/ UpdateDiagramClick
    \/ GenerateReadmeClick
    \/ StatusProcessingWritten
    \/ InvokeSucceeds
    \/ InvokeFails
    \/ StatusErrorWritten
    \/ DiagramReposFetched
    \/ ReadmeRepoUpdated
    \/ ReadmeCountUpdated
    \/ ProfileRefreshed
    \/ ReposFetched

(***************************************************************************)
(* DiagramViewer (pages/DiagramViewer.tsx)                                 *)
(***************************************************************************)

\* the diagram types, one tab each
DiagramTypes == {"flowchart", "erd", "sequence", "component"}

\* a row of repository_diagrams; the code is numbered by its version
Diagram(type, code) == [diagram_type |-> type, diagram_code |-> code]

\* the diagram types of a list of rows
TypesOf(rows) == {rows[k].diagram_type : k \in 1..Len(rows)}

\* rows.find(d => d.diagram_type === type): <<>> (undefined) or <<d>>
FindDiagram(rows, type) ==
    IF type \in TypesOf(rows)
    THEN <<rows[CHOOSE k \in 1..Len(rows) :
                   /\ rows[k].diagram_type = type
                   /\ \A j \in 1..(k - 1) : rows[j].diagram_type # type]>>
    ELSE <<>>

\* the tables of at most n diagrams of different types, each at its first
\* version
Tables(n) ==
    {{Diagram(type, 1) : type \in types} :
       types \in {t \in SUBSET DiagramTypes : Cardinality(t) <= n}}

\* what the select of fetchRepository can answer for repository_diagrams(*):
\* the rows of the table, in some order (the query names none)
Selected(table) ==
    {rows \in [1..Cardinality(table) -> table] :
       \A j, k \in 1..Cardinality(table) : rows[j] = rows[k] => j = k}

\* what the generate-diagram function stores ("Edge Function already saves
\* to repository_diagrams table"): a new version of the diagram of the
\* type, in place of the row of that type if there is one
SaveDiagram(table, type) ==
    LET old == {d \in table : d.diagram_type = type}
    IN  IF old = {} THEN table \cup {Diagram(type, 1)}
        ELSE (table \ old) \cup
             {Diagram(type, d.diagram_code + 1) : d \in old}

\* the effect on [activeDiagramType, repo]: setCurrentDiagramCode(
\* diagram?.diagram_code || null) once repo.repository_diagrams is there
DiagramCodeEffect(repo, type, code) ==
    IF repo = <<>> THEN code
    ELSE LET diagram == FindDiagram(repo[1], type)
         IN  IF diagram = <<>> THEN <<>> ELSE <<diagram[1].diagram_code>>

\* fetchRepository, data branch: the type setActiveDiagramType is called
\* with, or the type that stays
TypeAfterFetch(rows, type) ==
    IF Len(rows) > 0 THEN rows[1].diagram_type ELSE type

\* the page has mounted and its first fetchRepository() is awaiting the
\* select
ViewerMounted ==
    /\ viewerRepo = <<>>
    /\ viewerLoading = TRUE
    /\ activeDiagramType = "flowchart"
    /\ currentDiagramCode = <<>>
    /\ updating = FALSE
    /\ viewerUpdate = <<>>
    /\ viewerUpdates = 0
    /\ updatedType = <<>>

ViewerInit ==
    /\ dbDiagrams \in Tables(MaxDiagrams)
    /\ ViewerMounted

\* the select of the first fetchRepository() answers: with the row, or
\* with an error (setError, a toast)
FetchRepositoryResponds ==
    /\ viewerLoading
    /\ viewerLoading' = FALSE
    /\ \E ok \in BOOLEAN, rows \in Selected(dbDiagrams) :
         IF ok
         THEN /\ viewerRepo' = <<rows>>
              /\ activeDiagramType' = TypeAfterFetch(rows, activeDiagramType)
              /\ currentDiagramCode' =
                    DiagramCodeEffect(viewerRepo', activeDiagramType',
                                      currentDiagramCode)
         ELSE UNCHANGED <<viewerRepo, activeDiagramType, currentDiagramCode>>
    /\ updatedType' = <<>>
    /\ UNCHANGED <<nonPageVars, dashVars, dbDiagrams, updating, viewerUpdate,
                   viewerUpdates>>

\* a tab of the diagram-type-tabs: diagram && setActiveDiagramType(type)
SelectTab ==
    /\ viewerRepo # <<>>
    /\ \E type \in DiagramTypes :
         /\ FindDiagram(viewerRepo[1], type) # <<>>
         /\ type # activeDiagramType
         /\ activeDiagramType' = type
         /\ currentDiagramCode' =
               DiagramCodeEffect(viewerRepo, type, currentDiagramCode)
    /\ updatedType' = <<>>
    /\ UNCHANGED <<nonPageVars, dashVars, dbDiagrams, viewerRepo,
                   viewerLoading, updating, viewerUpdate, viewerUpdates>>

\* the Update Diagram button: handleUpdateDiagram up to the invocation
HandleUpdateDiagram ==
    /\ viewerRepo # <<>>
    /\ ~updating
    /\ viewerUpdates < MaxUpdates
    /\ viewerUpdates' = viewerUpdates + 1
    /\ updating' = TRUE
    /\ viewerUpdate' = <<[type |-> activeDiagramType, pc |-> "invoke"]>>
    /\ updatedType' = <<>>
    /\ UNCHANGED <<nonPageVars, dashVars, dbDiagrams, viewerRepo,
                   viewerLoading, activeDiagramType, currentDiagramCode>>

\* the invocation of generate-diagram answers without error: the function
\* has saved the diagram; handleUpdateDiagram awaits fetchRepository()
UpdateInvokeSucceeds ==
    /\ viewerUpdate # <<>>
    /\ viewerUpdate[1].pc = "invoke"
    /\ dbDiagrams' = SaveDiagram(dbDiagrams, viewerUpdate[1].type)
    /\ viewerUpdate' = <<[viewerUpdate[1] EXCEPT !.pc = "fetch"]>>
    /\ updatedType' = <<>>
    /\ UNCHANGED <<nonPageVars, dashVars, viewerRepo, viewerLoading,
                   activeDiagramType, currentDiagramCode, updating,
                   viewerUpdates>>

\* the invocation answers with an error: catch (a toast), finally
UpdateInvokeFails ==
    /\ viewerUpdate # <<>>
    /\ viewerUpdate[1].pc = "invoke"
    /\ viewerUpdate' = <<>>
    /\ updating' = FALSE
    /\ updatedType' = <<>>
    /\ UNCHANGED <<nonPageVars, dashVars, dbDiagrams, viewerRepo,
                   viewerLoading, activeDiagramType, currentDiagramCode,
                   viewerUpdates>>

\* the awaited fetchRepository() returns, having set the repository
\* (setRepo, setActiveDiagramType of the first row) or an error; the
\* success toast; finally
UpdateRefetched ==
    /\ viewerUpdate # <<>>
    /\ viewerUpdate[1].pc = "fetch"
    /\ viewerUpdate' = <<>>
    /\ updating' = FALSE
    /\ \E ok \in BOOLEAN, rows \in Selected(dbDiagrams) :
         IF ok
         THEN /\ viewerRepo' = <<rows>>
              /\ activeDiagramType' = TypeAfterFetch(rows, activeDiagramType)
              /\ currentDiagramCode' =
                    DiagramCodeEffect(viewerRepo', activeDiagramType',
                                      currentDiagramCode)
              /\ updatedType' = IF activeDiagramType = viewerUpdate[1].type
                                THEN <<viewerUpdate[1].type>> ELSE <<>>
         ELSE /\ updatedType' = <<>>
              /\ UNCHANGED <<viewerRepo, activeDiagramType, currentDiagramCode>>
    /\ UNCHANGED <<nonPageVars, dashVars, dbDiagrams, viewerLoading,
                   viewerUpdates>>

ViewerNext ==
    \/ FetchRepositoryResponds
    \/ SelectTab
    \/ HandleUpdateDiagram
    \/ UpdateInvokeSucceeds
    \/ UpdateInvokeFails
    \/ UpdateRefetched

\* the pages as they are before the user acts on them, the DiagramViewer
\* on a repository without diagrams
PageInit == DashInit /\ dbDiagrams = {} /\ ViewerMounted

vars ==
    <<apiVars, authVars, rlVars, orgTeamVars, backoff, fetchVars, pageVars>>

\* the backend tables of a user of the team page: member with role r1 of
\* organization 1 and, unless r2 is "none", with role r2 of organization 2;
\* u2 owns what the user does not own, and is a member of organization 1
\* and an admin of organization 2 otherwise
TeamDb(r1, r2) ==
    /\ dbOrgs = {Org(1, IF r1 = "owner" THEN Me ELSE "u2"),
                 Org(2, IF r2 = "owner" THEN Me ELSE "u2")}
    /\ dbMembers =
          {MemberRow(1, Me, r1),
           MemberRow(1, "u2", IF r1 = "owner" THEN "member" ELSE "owner"),
           MemberRow(2, "u2", IF r2 = "owner" THEN "admin" ELSE "owner")}
          \cup (IF r2 = "none" THEN {} ELSE {MemberRow(2, Me, r2)})

DbInit ==
    \/ \E n \in 0..(MaxOrgs - 1), other \in BOOLEAN :
          /\ dbOrgs = DbOrgsOf(n, other)
          /\ dbMembers = DbMembersOf(n, other, "admin")
    \/ \E r1 \in Roles, r2 \in Roles \cup {"none"} : TeamDb(r1, r2)

Init ==
    /\ ApiInit /\ AuthInit /\ RlInit /\ DbInit /\ OrgInit /\ TeamInit
    /\ BackoffInit /\ FetchInit /\ DashInit /\ ViewerInit

Next ==
    \/ ApiNext \/ AuthNext \/ RlNext \/ OrgNext \/ TeamNext
    \/ BackoffNext \/ FetchNext \/ DashNext \/ ViewerNext

Spec == Init /\ [][Next]_vars

\* a page where nothing of the AuthProvider has run
AuthIdle ==
    /\ impl = "part_002"
    /\ localStorage = EmptyLocalStorage
    /\ sessionStorage = EmptySessionStorage

\* a page where withRetry is called with the default configuration only
ApiIdle == config = DefaultRetryConfig

\* a page that does not use useRateLimit
RlIdle ==
    /\ rlUserId = <<>>
    /\ rlRow = [diagrams_generated |-> <<>>, readmes_generated |-> <<>>,
                last_diagram_at |-> <<>>, diagrams_this_hour |-> <<>>,
                last_readme_at |-> <<>>,
                readmes_this_hour |-> <<HOURLY_LIMIT - 1>>]

\* calculateBackoff is called by withRetry only
BackoffIdle == backoff = <<>>

\* a user without organizations who opens no team page
OrgIdle ==
    /\ dbOrgs = {}
    /\ dbMembers = {}
    /\ OrgInit
    /\ TeamInit

\* the retry helper and the classifier alone
InitApi ==
    /\ ApiInit /\ AuthInit /\ AuthIdle /\ RlInit /\ RlIdle /\ OrgIdle
    /\ BackoffIdle /\ FetchInit /\ PageInit

\* calculateBackoff alone, over attempt numbers, configurations and values
\* of Math.random()
InitBackoff ==
    /\ ApiInit /\ ApiIdle /\ AuthInit /\ AuthIdle /\ RlInit /\ RlIdle
    /\ OrgIdle
    /\ backoff \in {<<c>> : c \in BackoffCalls}
    /\ FetchInit /\ PageInit

SpecBackoff == InitBackoff /\ [][BackoffNext]_vars

\* fetchWithRetry alone, under any retry configuration
InitFetch ==
    /\ ApiInit /\ AuthInit /\ AuthIdle /\ RlInit /\ RlIdle /\ OrgIdle
    /\ BackoffIdle /\ FetchInit /\ PageInit

SpecFetch == InitFetch /\ [][FetchNext]_vars

SpecApi == InitApi /\ [][ApiNext]_vars

\* the AuthProvider and the ProtectedRoute alone, withRetry not called
InitAuth ==
    /\ AuthInit /\ ApiInit /\ ApiIdle /\ RlInit /\ RlIdle /\ OrgIdle
    /\ BackoffIdle /\ FetchInit /\ PageInit

SpecAuth == InitAuth /\ [][AuthNext]_vars

\* the same, with the scheduling the event loop guarantees: a due timer
\* fires, time passes, a pending redirect happens.  Nothing obliges the
\* backend to answer, the user to act, or an answer to arrive in time.
FairSpecAuth ==
    /\ SpecAuth
    /\ WF_vars(InitSessionTimeout)
    /\ WF_vars(FetchSelectTimeout)
    /\ WF_vars(BackgroundSessionTimeout)
    /\ WF_vars(SignOutTimeout)
    /\ WF_vars(RouteTimeout)
    /\ WF_vars(RedirectToLogin)
    /\ WF_vars(Tick)

\* the useRateLimit hook alone
InitRateLimit ==
    /\ RlInit /\ ApiInit /\ ApiIdle /\ AuthInit /\ AuthIdle /\ OrgIdle
    /\ BackoffIdle /\ FetchInit /\ PageInit

SpecRateLimit == InitRateLimit /\ [][RlNext]_vars

\* the OrganizationProvider alone, its functions called in any order
InitOrg ==
    /\ ApiInit /\ ApiIdle /\ AuthInit /\ AuthIdle /\ RlInit /\ RlIdle
    /\ BackoffIdle /\ FetchInit /\ PageInit
    /\ \E n \in 0..(MaxOrgs - 1), other \in BOOLEAN :
         /\ dbOrgs = DbOrgsOf(n, other)
         /\ dbMembers = DbMembersOf(n, other, "admin")
    /\ OrgInit
    /\ TeamInit

SpecOrg == InitOrg /\ [][OrgNext]_vars

\* the team page over the provider
InitTeam ==
    /\ ApiInit /\ ApiIdle /\ AuthInit /\ AuthIdle /\ RlInit /\ RlIdle
    /\ BackoffIdle /\ FetchInit /\ PageInit
    /\ \E r1 \in {"owner", "admin", "member"},
          r2 \in {"owner", "viewer", "none"} : TeamDb(r1, r2)
    /\ OrgInit
    /\ TeamInit

SpecTeam == InitTeam /\ [][TeamNext]_vars

\* the Dashboard alone, its buttons pressed in any order
InitDash ==
    /\ ApiInit /\ ApiIdle /\ AuthInit /\ AuthIdle /\ RlInit /\ RlIdle
    /\ OrgIdle /\ BackoffIdle /\ FetchInit /\ PageInit

SpecDash == InitDash /\ [][DashNext]_vars

\* the DiagramViewer alone, on a repository with any diagrams
InitViewer ==
    /\ ApiInit /\ ApiIdle /\ AuthInit /\ AuthIdle /\ RlInit /\ RlIdle
    /\ OrgIdle /\ BackoffIdle /\ FetchInit /\ DashInit /\ ViewerInit

SpecViewer == InitViewer /\ [][ViewerNext]_vars

(***************************************************************************)
(* Properties of lib/api.ts                                                *)
(***************************************************************************)

Rejected == rPc = "rejected"
DefaultPolicy == config.retryOn = "default"
AuthMarkers == {"401", "403"}
ClientMarkers == {"400", "404"}
NetworkMarkers == {"fetch", "network"}
ServerMarkers == {"500", "502", "503", "504"}
TimeoutMarkers == {"timeout", "TIMEOUT"}
Carries(m, markers) == \E s \in markers : Includes(m, s)

\* C1: fn is invoked at most maxRetries + 1 times (at most 4 times under the
\* default config, at most 3 under the Dashboard's config), and a rejection
\* of withRetry carries the error of the last invocation of fn.
C1_RetryStops ==
    /\ calls <= config.maxRetries + 1
    /\ config = DefaultRetryConfig => calls <= 4
    /\ config = DashboardRetryConfig => calls <= 3
    /\ Rejected =>
          /\ calls >= 1
          /\ fnOutcome[1] = "error"
          /\ thrown = <<fnOutcome[2]>>

\* C1 witness: the default config ran out of attempts after 4 failing calls
C1_Witness ==
    /\ Rejected
    /\ config = DefaultRetryConfig
    /\ calls = 4
    /\ sleeps = 3

\* what the default policy tests as network error, 5xx server error, timeout
TransientMarkers == NetworkMarkers \cup ServerMarkers \cup TimeoutMarkers

\* C2 as stated: under the default policy a failure that is a network error,
\* a timeout or a 5xx server error is retried while attempts remain, so that
\* withRetry gives up on such an error only after maxRetries + 1 invocations;
\* there is one sleep between consecutive invocations and none after the
\* last.
C2_Original ==
    DefaultPolicy =>
      /\ (Rejected /\ Carries(thrown[1], TransientMarkers)) =>
            /\ attempt = config.maxRetries
            /\ calls = config.maxRetries + 1
      /\ sleeps = (IF rPc = "sleeping" THEN calls ELSE calls - 1)
            \/ rPc = "idle"

\* the transient failures the default policy does retry: a network marker,
\* or a 5xx or timeout marker in a message without 401, 403, 400 and 404
RetriedTransient(m) ==
    \/ Carries(m, NetworkMarkers)
    \/ /\ Carries(m, ServerMarkers \cup TimeoutMarkers)
       /\ ~Carries(m, AuthMarkers \cup ClientMarkers)

\* C2 amended: under the default policy a failure whose message contains
\* 'fetch' or 'network', or contains a 5xx status or 'timeout'/'TIMEOUT' and
\* none of 401, 403, 400, 404, is retried while attempts remain: withRetry
\* gives up on it only after exactly maxRetries + 1 invocations, with one
\* sleep between consecutive invocations and none after the last.
C2_TransientRetried ==
    DefaultPolicy =>
      /\ (Rejected /\ RetriedTransient(thrown[1])) =>
            /\ attempt = config.maxRetries
            /\ calls = config.maxRetries + 1
            /\ sleeps = config.maxRetries
      /\ rPc = "sleeping" => sleeps = calls /\ attempt < config.maxRetries
      /\ rPc \in {"awaiting", "resolved", "rejected"} => sleeps = calls - 1

\* C2 witness: four invocations failed with 5xx / timeout / network errors
C2_Witness ==
    /\ DefaultPolicy
    /\ Rejected
    /\ thrown[1] = {Marker("503")}
    /\ calls = 4
    /\ sleeps = 3

\* C3 as stated: under the default policy a failure whose message carries
\* 401, 403, 400 or 404 is never retried (no sleep follows it), and when it
\* is the first failure fn was invoked once and withRetry rejects with it.
C3_Original ==
    DefaultPolicy =>
      /\ rPc = "sleeping" =>
            ~Carries(lastError, AuthMarkers \cup ClientMarkers)
      /\ (calls = 1 /\ fnOutcome # <<>> /\ fnOutcome[1] = "error"
            /\ Carries(fnOutcome[2], AuthMarkers \cup ClientMarkers)) =>
            /\ Rejected
            /\ sleeps = 0
            /\ thrown = <<fnOutcome[2]>>

\* C3 amended: under the default policy a failure whose message carries 401,
\* 403, 400 or 404 and contains neither 'fetch' nor 'network' is never
\* retried: no sleep follows it, and when it is the first failure fn was
\* invoked exactly once and withRetry rejects with that error.
C3_AuthClientNotRetried ==
    DefaultPolicy =>
      /\ rPc = "sleeping" =>
            \/ ~Carries(lastError, AuthMarkers \cup ClientMarkers)
            \/ Carries(lastError, NetworkMarkers)
      /\ (calls = 1 /\ fnOutcome # <<>> /\ fnOutcome[1] = "error"
            /\ Carries(fnOutcome[2], AuthMarkers \cup ClientMarkers)
            /\ ~Carries(fnOutcome[2], NetworkMarkers)) =>
            /\ Rejected
            /\ sleeps = 0
            /\ thrown = <<fnOutcome[2]>>

\* C3 witness: the first call failed with a 403 and withRetry gave up at once
\* although three retries were left
C3_Witness ==
    /\ config = DefaultRetryConfig
    /\ Rejected
    /\ thrown = <<{"403"}>>
    /\ calls = 1
    /\ sleeps = 0

\* C4: under the default policy withRetry retries an error, when attempts
\* remain, if and only if ApiError.fromError classifies it as retryable.
C4_RetryAgreesWithClassifier ==
    DefaultPolicy =>
      /\ rPc = "sleeping" => isRetryableError(lastError)
      /\ (Rejected /\ calls >= 1 /\ attempt < config.maxRetries) =>
            ~isRetryableError(thrown[1])

\* the order in which the claim lists the markers, with their categories
MarkerOrder ==
    << <<{"fetch", "network", "ECONNREFUSED"}, "NETWORK">>,
       <<{"401", "Unauthorized"}, "AUTH">>,
       <<{"403", "Forbidden"}, "AUTH">>,
       <<{"429", "rate limit"}, "RATE_LIMIT">>,
       <<{"500", "502", "503", "504"}, "SERVER">>,
       <<{"400", "404"}, "CLIENT">>,
       <<{"timeout", "TIMEOUT", "AbortError"}, "TIMEOUT">> >>

\* the category of the first entry of MarkerOrder that the message matches
FirstMatch(m) ==
    LET hits == {i \in 1..Len(MarkerOrder) : Carries(m, MarkerOrder[i][1])}
    IN  IF hits = {} THEN "UNKNOWN"
        ELSE MarkerOrder[CHOOSE i \in hits : \A j \in hits : i <= j][2]

CategoryText ==
    [t \in ApiErrorTypes |->
       CASE t = "NETWORK" ->
              "Unable to connect. Please check your internet connection and try again."
         [] t = "AUTH" -> "Your session has expired. Please log in again."
         [] t = "RATE_LIMIT" ->
              "Too many requests. Please wait a moment and try again."
         [] t = "SERVER" ->
              "Server error. Our team has been notified. Please try again later."
         [] t = "TIMEOUT" -> "Request timed out. Please try again."
         [] t = "CLIENT" ->
              "Invalid request. Please refresh the page and try again."
         [] t = "UNKNOWN" -> "Something went wrong. Please try again."]

\* C5: the category fromError assigns is the one of the first marker group,
\* in the order network, 401, 403, 429, 5xx, 400/404, timeout, that occurs
\* in the message (UNKNOWN when none does); isRetryable is true exactly for
\* NETWORK, SERVER and TIMEOUT; the user-facing text is the one of that
\* category, the generic text only for UNKNOWN.
C5_Classification ==
    shown # <<>> =>
      LET e == shown[1].error
          m == thrown[1]
      IN  /\ e.type \in ApiErrorTypes
          /\ e.type = FirstMatch(m)
          /\ e.message = m
          /\ e.isRetryable <=> e.type \in {"NETWORK", "SERVER", "TIMEOUT"}
          /\ shown[1].text = CategoryText[e.type]
          /\ shown[1].text = CategoryText["UNKNOWN"] <=> e.type = "UNKNOWN"

\* C5 witness: a message with a 5xx and a 404 marker was classified SERVER
C5_Witness ==
    /\ shown # <<>>
    /\ thrown[1] = {Marker("500"), Marker("404")}
    /\ shown[1].error.type = "SERVER"
    /\ shown[1].error.isRetryable

(***************************************************************************)
(* Properties of the AuthProvider and the ProtectedRoute                   *)
(***************************************************************************)

\* C6: session bootstrap never hangs (part_002): once the provider is
\* mounted, loading eventually becomes false unless the provider unmounts,
\* whichever backend calls never answer.  (The run in which getSession
\* rejects, which ends initSession with an unhandled rejection, is left
\* aside: the claim is about calls that do not answer.)
C6_BootstrapNeverHangs ==
    (impl = "part_002" /\ isMounted)
        ~> (~loading \/ ~isMounted \/ initPc = "failed")

StoragesEmpty ==
    /\ localStorage = EmptyLocalStorage
    /\ sessionStorage = EmptySessionStorage

\* the step in which ProtectedRoute's timer fires: it was due, and it is
\* disarmed while the route stays mounted and loading stays true
RouteTimerFired ==
    /\ RouteMounted
    /\ routeTimer = 0
    /\ routeTimer' = Off
    /\ RouteMounted'
    /\ loading /\ loading'

\* C7: while the spinner is shown the 5 s timer is armed, and the spinner
\* does not stay forever; when the timer fires (loading was true for
\* MAX_LOADING_TIME_MS) both storages are cleared and the route redirects to
\* /login; when loading turns false first, the timer is disarmed, timedOut
\* stays false and that step clears no storage, and with loading false the
\* route has no timer and is not timed out.
C7_RouteTimer ==
    /\ [](View = "spinner" => routeTimer \in 0..MAX_LOADING_TIME_MS)
    /\ [](RouteMounted /\ ~loading => routeTimer = Off /\ ~timedOut)
    /\ [][RouteTimerFired =>
            (StoragesEmpty' /\ timedOut' /\ View' = "redirect")]_vars
    /\ [][(RouteMounted /\ loading /\ ~loading') =>
            /\ routeTimer' = Off
            /\ ~timedOut'
            /\ localStorage' = localStorage
            /\ sessionStorage' = sessionStorage]_vars
    /\ [][(routeTimer = Off /\ routeTimer' # Off) =>
            (routeTimer' = MAX_LOADING_TIME_MS /\ loading')]_vars
    /\ (View = "spinner") ~> (View # "spinner")

\* C7 witness: the route timed out: the storages, which held data, are
\* empty and the route is about to redirect
C7_Witness ==
    /\ RouteMounted
    /\ timedOut
    /\ loading
    /\ StoragesEmpty
    /\ View = "redirect"

\* C8: the protected children are rendered only with loading false, a user
\* and no timeout; with loading false and no user the route redirects.
C8_ChildrenOnlyWhenSignedIn ==
    /\ View = "children" => (~loading /\ user # "null" /\ ~timedOut)
    /\ (RouteMounted /\ ~loading /\ user = "null") => View = "redirect"

\* C8 witness: the children are shown to a signed-in user
C8_Witness ==
    /\ View = "children"
    /\ user = "serverUser"
    /\ initPc = "done"

\* the stored token is structurally valid
ValidStructure(storage) ==
    /\ storage.authToken # <<>>
    /\ storage.authToken[1].parses
    /\ storage.authToken[1].access_token
    /\ storage.authToken[1].user

\* ... and its expires_at is absent or not in the past
ValidUnexpired(storage) ==
    /\ ValidStructure(storage)
    /\ \/ storage.authToken[1].expires_at = 0
       \/ storage.authToken[1].expires_at * 1000 >= DateNowMs

\* ... and, in part_002, more than five minutes away
ValidUnexpiredFor(i, storage) ==
    /\ ValidUnexpired(storage)
    /\ i = "part_002" =>
          \/ storage.authToken[1].expires_at = 0
          \/ storage.authToken[1].expires_at * 1000 >= DateNowMs + 300000

MountStep == mountState = "initial" /\ mountState' = "mounted"

\* the cached session is installed and no backend answer was processed
OptimisticStart ==
    /\ session = "cached"
    /\ user = "cachedUser"
    /\ ~loading
    /\ bgPc = "pending"
    /\ bgResp = "none"
    /\ fp[0].pc = "select"
    /\ events = 0

SignedOutClean ==
    /\ user = "null"
    /\ profile = "null"
    /\ session = "null"
    /\ StoragesEmpty

\* C10: signOut always completes, and when it returns user, profile and
\* session are null and both storages are empty.
C10_SignOutCompletes ==
    /\ (soPc = "awaiting") ~> (soPc = "done")
    /\ [][(soPc = "awaiting" /\ soPc' = "done") => SignedOutClean']_vars

\* part_002 alone: its signOut completes and leaves the client signed out
SignOutCompletesPart002 ==
    /\ (impl = "part_002" /\ soPc = "awaiting") ~> (soPc = "done")
    /\ [][(soPc = "awaiting" /\ soPc' = "done") => SignedOutClean']_vars

(***************************************************************************)
(* Properties of useRateLimit                                              *)
(***************************************************************************)

\* the effective hourly count of the claim: 0 when the last generation is
\* missing or more than an hour before the computation, else the stored count
EffectiveHourly(lastAt, storedCount, at) ==
    IF lastAt = <<>> THEN 0
    ELSE IF at - lastAt[1] > HourMs THEN 0
    ELSE IF storedCount = <<>> THEN 0 ELSE storedCount[1]

\* the remaining time in whole minutes, rounded up: the least n >= 1 with
\* n minutes >= diffMs
RoundedUpMinutes(diffMs) ==
    CHOOSE n \in 1..(HourMs \div MinuteMs + 1) :
        n * MinuteMs >= diffMs /\ (n - 1) * MinuteMs < diffMs

ExpectedRemaining(endsAt, now) ==
    IF endsAt = <<>> THEN <<>>
    ELSE IF endsAt[1] <= now THEN <<>>
    ELSE <<RoundedUpMinutes(endsAt[1] - now), " min">>

\* what the claim says of one kind of generation
CooldownCorrect(total, lastAt, storedCount, thisHour, endsAt, can, shownText) ==
    LET eff == EffectiveHourly(lastAt, storedCount, rlFetchNow)
    IN /\ thisHour = eff
       /\ endsAt = (IF eff >= 5 THEN <<lastAt[1] + HourMs>> ELSE <<>>)
       /\ can = ((IF total = <<>> THEN 0 ELSE total[1]) < 10 /\ eff < 5)
       /\ (endsAt # <<>> => ~can)
       /\ shownText = ExpectedRemaining(endsAt, rlNow)

\* C11: from a fetched profile the hourly count in effect is 0 when the last
\* generation is missing or older than one hour and the stored count
\* otherwise; the cooldown ends one hour after the last generation exactly
\* when that count is at least 5 and is null otherwise; canGenerate is true
\* exactly when the total is below 10 and the count below 5, so a cooldown
\* implies canGenerate is false; formatCooldownTime gives the empty string
\* for a null or elapsed cooldown and otherwise the remaining time in whole
\* minutes, rounded up, at least 1.
C11_CooldownComputed ==
    rlProfile # <<>> =>
        LET p == rlProfile[1]
        IN /\ CooldownCorrect(p.diagrams_generated, p.last_diagram_at,
                              p.diagrams_this_hour, rlState.diagramsThisHour,
                              rlState.diagramCooldownEndsAt,
                              rlState.canGenerateDiagram,
                              diagramCooldownRemaining)
           /\ CooldownCorrect(p.readmes_generated, p.last_readme_at,
                              p.readmes_this_hour, rlState.readmesThisHour,
                              rlState.readmeCooldownEndsAt,
                              rlState.canGenerateReadme,
                              readmeCooldownRemaining)

\* C11 witness: a profile was fetched whose last diagram leaves one minute
\* and 1 ms of the hour, shown as 2 minutes, and whose last README is older
\* than an hour, so that its stored count of 6 no longer counts and only the
\* total of 10 forbids a README
C11_Witness ==
    /\ rlProfile # <<>>
    /\ rlFetchNow = 0
    /\ rlNow = 0
    /\ rlProfile[1].last_diagram_at = <<MinuteMs + 1 - HourMs>>
    /\ rlState.diagramsThisHour = HOURLY_LIMIT
    /\ ~rlState.canGenerateDiagram
    /\ rlState.diagramCooldownEndsAt = <<MinuteMs + 1>>
    /\ diagramCooldownRemaining = <<2, " min">>
    /\ rlProfile[1].readmes_this_hour = <<HOURLY_LIMIT + 1>>
    /\ rlState.readmesThisHour = 0
    /\ rlState.readmeCooldownEndsAt = <<>>
    /\ ~rlState.canGenerateReadme
    /\ readmeCooldownRemaining = <<>>

(***************************************************************************)
(* Properties of the OrganizationProvider and of TeamSettings              *)
(***************************************************************************)

\* the role the provider knows the user to have in the organization shown
RoleInShownOrg == userRole(TsOrg[1].id)

\* C12: on TeamSettings the member-management controls (Invite Member, role
\* selector, remove button) are shown only when the user's membership role
\* in the organization being displayed is owner or admin, and the Delete
\* Organization action only when it is owner.
C12_VisibilityMatchesRole ==
    TeamShown =>
        /\ ShowsInvite => RoleInShownOrg \in {"owner", "admin"}
        /\ \A m \in members :
               (ShowsRoleSelect(m) \/ ShowsRemove(m))
                   => RoleInShownOrg \in {"owner", "admin"}
        /\ ShowsDelete => RoleInShownOrg = "owner"

\* the limit the claim gives for a tier: <<>> is unlimited
ClaimedLimit(t) ==
    IF t = <<>> THEN <<1>>
    ELSE IF t[1] = "free" THEN <<1>>
    ELSE IF t[1] = "pro" THEN <<5>>
    ELSE <<>>

\* the organizations of userOrgs that the user owns
OwnedCount == Cardinality({o \in userOrgs : <<o.owner_id>> = orgUser})

AtClaimedLimit ==
    /\ orgUser # <<>>
    /\ ClaimedLimit(tier) # <<>>
    /\ OwnedCount >= ClaimedLimit(tier)[1]

\* C13: createOrg issues no insert and throws the limit error whenever the
\* number of organizations of userOrgs owned by the user is at least the
\* limit of the tier (1 for free or missing, 5 for pro, none otherwise);
\* without a signed-in user it returns null and calls no backend.
C13_TierGatesCreation ==
    [][/\ AtClaimedLimit => orgInserts' <= orgInserts
       /\ (CreateOrg /\ AtClaimedLimit) =>
              /\ createResult'.kind = "throw"
              /\ createResult'.limit = ClaimedLimit(tier)[1]
              /\ UNCHANGED <<orgInserts, orgFetches, dbVars>>
       /\ (CreateOrg /\ orgUser = <<>>) =>
              /\ createResult'.kind = "null"
              /\ UNCHANGED <<orgInserts, orgFetches, dbVars>>]_vars

\* C13 witness: a pro user whose list holds 5 organizations of their own
\* was refused a further one
C13_Witness ==
    /\ orgUser = <<Me>>
    /\ tier = <<"pro">>
    /\ OwnedCount = 5
    /\ createResult.kind = "throw"
    /\ createResult.limit = 5
    /\ orgInserts = 0

\* the backend keeps, for every organization, its owner as the one member
\* with the role owner
OwnersKept ==
    /\ \A o \in dbOrgs :
           \E m \in dbMembers :
               m.org_id = o.id /\ m.user_id = o.owner_id /\ m.role = "owner"
    /\ \A m \in dbMembers :
           m.role = "owner" =>
               \E o \in dbOrgs : o.id = m.org_id /\ o.owner_id = m.user_id

\* C15: no removeMember is issued for a member whose role is owner, no role
\* selector is offered for an owner row, no role change assigns the role
\* owner, and no remove button is offered for the user's own row.
C15_OwnerProtected ==
    /\ \A p \in tsPending :
           /\ p.member.role # "owner"
           /\ p.op = "updateMemberRole" => p.role # "owner"
           /\ \A m \in dbMembers : m.id = p.member.id => m.role # "owner"
    /\ \A m \in members :
           /\ m.role = "owner" => ~ShowsRoleSelect(m) /\ ~ShowsRemove(m)
           /\ <<m.user_id>> = orgUser => ~ShowsRemove(m)
    /\ OwnersKept

\* C15 witness: a user who may manage members sees the owner's row and
\* their own row, and the removal of another member is in flight
C15_Witness ==
    /\ TeamShown
    /\ ~tsLoading
    /\ canManageMembers
    /\ \E m \in members : m.role = "owner"
    /\ \E m \in members : <<m.user_id>> = orgUser
    /\ \E p \in tsPending :
           /\ p.op = "removeMember"
           /\ p.live
           /\ p.member \in members

\* the mount went to the server session check: nothing is installed, loading
\* stays true and supabase.auth.getSession() is awaited
ServerCheckStart ==
    /\ initPc = "getSession"
    /\ session = "null"
    /\ user = "null"
    /\ loading
    /\ ~usedCache
    /\ bgPc = "idle"

\* C14: the mount installs the cached session without waiting for the server
\* only if the stored value has access_token and user and its expires_at is
\* not in the past (in part_002: not within five minutes of expiry);
\* otherwise it falls through to the server session check.
C14_NoStaleCache ==
    /\ [][(MountStep /\ (session' # "null" \/ usedCache' \/ ~loading')) =>
            ValidUnexpiredFor(impl, localStorage)]_vars
    /\ [][(MountStep /\ ~ValidUnexpiredFor(impl, localStorage)) =>
            ServerCheckStart']_vars

\* C14 witness: useAuth.tsx mounted over a well-formed token whose
\* expires_at is in the past and now awaits the server
C14_Witness ==
    /\ impl = "useAuth"
    /\ mountState = "mounted"
    /\ ValidStructure(localStorage)
    /\ ~ValidUnexpired(localStorage)
    /\ ServerCheckStart

\* C16: under the default retry policy, if every invocation of fn so far
\* failed with an unknown error, fn has been invoked at most twice.
C16_UnknownRetriedOnce ==
    (config = DefaultRetryConfig /\ calls >= 1 /\ allUnknown) => calls <= 2

\* the call of calculateBackoff has returned
BackoffReturned == backoff # <<>> /\ backoff[1].delay # <<>>

\* C17: for every attempt number and every jitter value calculateBackoff
\* returns a delay of at most config.maxDelayMs, and while
\* baseDelayMs * 2^(attempt + 1) is below the cap the underlying delay
\* doubles from one attempt to the next.
C17_DelayCapped ==
    BackoffReturned =>
        LET c == backoff[1]
        IN  /\ c.delay[1] <= c.config.maxDelayMs
            /\ c.config.baseDelayMs * Pow2(c.attempt + 1)
                   <= c.config.maxDelayMs =>
                  ExponentialDelay(c.attempt + 1, c.config)
                     = 2 * ExponentialDelay(c.attempt, c.config)

\* the invocations of fn that have returned or thrown
Finished == {k \in 1..calls : k < calls \/ rPc # "awaiting"}

\* the timer of every finished invocation was cancelled or has fired
TimersCancelled == \A k \in Finished : fwTimers[k] # "armed"

\* the latest fetch resolved with a response
GotResponse == fwSettled # <<>> /\ fwSettled[1] = "response"

\* C18: fetchWithRetry resolves only with an OK response; a non-OK response
\* becomes the error 'HTTP <status>: <statusText>'; an attempt aborted by its
\* 30 s timer becomes the error 'Request timeout', which the default policy
\* retries while attempts remain; every finished attempt has cancelled its
\* timer, so that no timer of a finished attempt is left to fire during a
\* later one.
C18_FetchAttempts ==
    /\ rPc = "resolved" => GotResponse /\ Ok(fwSettled[2])
    /\ (GotResponse /\ ~Ok(fwSettled[2])) =>
          /\ fwThrown = <<HttpError(fwSettled[2])>>
          /\ fnOutcome = <<"error", MessageOf(HttpError(fwSettled[2]))>>
    /\ fwSettled = <<"AbortError">> =>
          /\ fwThrown = <<RequestTimeout>>
          /\ fnOutcome = <<"error", {"timeout"}>>
          /\ (config.retryOn = "default" /\ rPc = "rejected") =>
                attempt = config.maxRetries
    /\ TimersCancelled

\* C18 witness: the first attempt was aborted by its timer, the second got
\* a 500, the third resolved with an OK response
C18_Witness ==
    /\ rPc = "resolved"
    /\ calls = 3
    /\ fwTimers[1] = "fired"
    /\ fwTimers[2] = "cleared"
    /\ fwTimers[3] = "cleared"
    /\ fwThrown = <<HttpError(<<500, "Internal Server Error">>)>>
    /\ Ok(fwSettled[2])

\* C19: once the AuthProvider of hooks/useAuth.tsx is unmounted, no step
\* other than a signOut call returning changes user, session, profile or
\* loading.
C19_QuietAfterUnmount ==
    [][(impl = "useAuth" /\ mountState = "unmounted" /\ soPc' = soPc) =>
         reactVars' = reactVars]_vars

\* C20: when the cached session was used and the background session check
\* answers, while the provider is mounted, that there is no session, then
\* session, user and profile are cleared; when the check throws, the cached
\* session is kept.
C20_InvalidCacheRevoked ==
    /\ [][(bgPc = "pending" /\ bgResp' = "null" /\ isMounted) =>
            (session' = "null" /\ user' = "null" /\ profile' = "null")]_vars
    /\ [][(bgPc = "pending" /\ bgResp' = "throw") =>
            reactVars' = reactVars]_vars

\* the first fetchUserOrgs answer after a page load arrives: the lists were
\* empty and become the user's organizations
FirstFetchAfterLoad ==
    /\ userOrgs = {}
    /\ currentOrg = <<>>
    /\ userOrgs' # {}

\* C21: if organization X was selected when the page was loaded again
\* (X stored under 'mivna_current_org'), then once the user's organizations
\* have been fetched with X among them, currentOrg is X again.
C21_SelectionSurvivesReload ==
    [][(FirstFetchAfterLoad /\ loadedOrgId # <<>>
          /\ FindOrg(userOrgs', loadedOrgId[1]) # <<>>) =>
         currentOrg' = FindOrg(userOrgs', loadedOrgId[1])]_vars

\* no fetchUserOrgs, createOrg or deleteOrg call is in flight
OrgQuiet ==
    /\ orgFetches = NoFetches
    /\ orgInserts = 0
    /\ orgDeletes = {}

\* C22: once the pending calls have completed, currentOrg is null or one of
\* the organizations in userOrgs, and it is null when nobody is signed in.
C22_CurrentOrgInList ==
    OrgQuiet =>
        /\ currentOrg = <<>> \/ currentOrg[1] \in userOrgs
        /\ orgUser = <<>> => currentOrg = <<>>

\* the organizations of the backend that the user owns
DbOwned == OwnedOrgs(dbOrgs, Me)

\* the insert of a createOrg call has stored a new organization
OrgStored == dbOrgs' # dbOrgs /\ dbOrgs \subseteq dbOrgs'

\* C23: whatever the interleaving of createOrg calls, no insert brings the
\* number of organizations the user owns above the limit of their tier
\* (1 for free, 5 for pro).
C23_LimitUnderOverlap ==
    [][OrgStored =>
         LET limit == OrgLimit(TierOf(tier))
         IN  limit # <<>> => Cardinality(OwnedOrgs(dbOrgs', Me)) <= limit[1]
      ]_vars

(***************************************************************************)
(* Properties of the Dashboard                                             *)
(***************************************************************************)

\* no generateReadme call is in flight
NoReadmeRun == \A i \in RunIds : runs[i].kind # "readme"

\* C24: after N successful runs of generateReadme, overlapping or not, the
\* stored readmes_generated of the profile has increased by exactly N (it
\* starts at 0 here, and readmeDone counts the successful runs).
C24_ReadmeCounterExact == NoReadmeRun => dbReadmes = readmeDone

\* C25: a repository id is in processingRepos exactly while a
\* generateDiagram or generateReadme run for it is in flight; in particular
\* the id is never removed while another run for the same repository is
\* still in flight.
C25_ProcessingTracksRuns ==
    \A r \in RepoIds : r \in processingRepos <=> InFlight(r) # {}

\* the call i goes from the update to 'processing' on to the invocation
ReachesInvoke(i) ==
    /\ runs[i].kind = "diagram"
    /\ runs[i].pc = "setProcessing"
    /\ runs'[i].pc = "invoke"

\* the latest generateDiagram run of r failed, and nothing that concerns r
\* or the list is in flight any more
FailedAndQuiet(r) ==
    /\ lastDiagram[r] = "failed"
    /\ InFlight(r) = {}
    /\ repoFetches = 0

\* C26: generateDiagram stores status 'processing' before it invokes the
\* function, and once a failed run has completed the stored status of the
\* repository is 'error', and so is the status in the list of the Dashboard.
C26_FailedRunShowsError ==
    /\ [][\A i \in RunIds :
            ReachesInvoke(i) => dbRepoStatus'[runs[i].repo] = "processing"]_vars
    /\ [](\A r \in RepoIds :
            FailedAndQuiet(r) => /\ dbRepoStatus[r] = "error"
                                 /\ shownStatus[r] = "error")

(***************************************************************************)
(* Properties of the DiagramViewer                                         *)
(***************************************************************************)

\* the code of the stored diagram of the type: <<>> or <<code>>
StoredCode(type) ==
    LET stored == {d \in dbDiagrams : d.diagram_type = type}
    IN  IF stored = {} THEN <<>> ELSE <<(CHOOSE d \in stored : TRUE).diagram_code>>

\* C27: after handleUpdateDiagram has succeeded for the active diagram type
\* T and the repository has been fetched again, activeDiagramType is still
\* T and the displayed code is the stored diagram of type T.
C27_TabSurvivesUpdate ==
    updatedType # <<>> =>
        /\ activeDiagramType = updatedType[1]
        /\ currentDiagramCode = StoredCode(updatedType[1])

====
